---- MODULE Spec2Model ----
(***************************************************************************)
(* Verification model of colbak: the streaming cpio codec (writer state    *)
(* machine, smart-buffer adaptor, reader) and the snapshot diff engine.    *)
(*                                                                         *)
(* Conventions: a byte is a number in 0..255, a byte string a sequence of  *)
(* bytes, and Option<T> a sequence of length 0 (None) or 1 (Some).         *)
(***************************************************************************)
EXTENDS Integers, Sequences, FiniteSets, TLC

\* ---------------------------------------------------------------- bounds
\* Largest number of files queued in one archive.
MaxFiles == 2
\* Largest capacity of the buffer a caller passes to one read.
MaxCap == 4
\* Capacity of the BufReader that wraps the stream (tokio's default, scaled).
BufSize == 3
\* Largest number of bytes the disk hands over before it blocks again.
MaxChunk == 2
\* Files at least this long take the streamed path (10 MiB, scaled).
SmallLimit == 3

\* ------------------------------------------------------ program constants
MAGIC == 29127
TRAILER_LEN == 11
HeaderSize == 26
MaxNameLen == 65534
EXTENSION_LENGTH == 10
HASH_LENGTH == 12

TRAILER == <<84, 82, 65, 73, 76, 69, 82, 33, 33, 33, 0>>

\* ---------------------------------------------------------------- helpers
Min(a, b) == IF a < b THEN a ELSE b

None == <<>>
Some(x) == <<x>>
IsSome(o) == Len(o) = 1

Drop(s, n) == SubSeq(s, n + 1, Len(s))
Take(s, n) == SubSeq(s, 1, n)

\* `let x = value;` followed by Body: value is evaluated once.
With(value, Body(_)) == Body(value)

RECURSIVE Concat(_)
Concat(ss) == IF ss = <<>> THEN <<>> ELSE Head(ss) \o Concat(Tail(ss))

\* SHA-256 as a streaming fold: update feeds bytes into the running state and
\* the digest is the final state, so hashing chunk by chunk equals hashing
\* the whole.  (The fold is collision-free on the contents the model uses.)
RECURSIVE Sha256Update(_, _)
Sha256Update(h, bytes) ==
    IF bytes = <<>> THEN h
    ELSE Sha256Update((h * 31 + Head(bytes) + 1) % 65521, Tail(bytes))
Sha256New == Sha256Update(1, <<>>)
Sha256(bytes) == Sha256Update(Sha256New, bytes)

\* ------------------------------------------------------------ cpio header
u16le(x) == <<x % 256, (x \div 256) % 256>>
u16from(b, i) == b[i] + 256 * b[i + 1]

convert_u32(n) == <<(n \div 65536) % 65536, n % 65536>>
decode_u32(x) == x[1] * 65536 + x[2]

encode_timestamp(x) ==
    IF x <= 0 THEN <<0, 0>>
    ELSE IF (x \div 65536) > 65535 THEN <<65535, 65535>>
    ELSE convert_u32(x)

into_array(h) ==
    u16le(h.magic) \o u16le(h.dev_ino[1]) \o u16le(h.dev_ino[2]) \o u16le(h.mode)
    \o u16le(h.uid) \o u16le(h.gid) \o u16le(h.nlink) \o u16le(h.rdev)
    \o u16le(h.mtime[1]) \o u16le(h.mtime[2]) \o u16le(h.namesize)
    \o u16le(h.filesize[1]) \o u16le(h.filesize[2])

\* The 26 bytes reinterpreted as a header whatever the magic is.
decode_any_magic(data) ==
    Some([magic |-> u16from(data, 1),
          dev_ino |-> <<u16from(data, 3), u16from(data, 5)>>,
          mode |-> u16from(data, 7),
          uid |-> u16from(data, 9),
          gid |-> u16from(data, 11),
          nlink |-> u16from(data, 13),
          rdev |-> u16from(data, 15),
          mtime |-> <<u16from(data, 17), u16from(data, 19)>>,
          namesize |-> u16from(data, 21),
          filesize |-> <<u16from(data, 23), u16from(data, 25)>>])

\* CpioHeader::decode: the 26 bytes reinterpreted; None unless the magic fits.
decode(data) ==
    LET h == [magic |-> u16from(data, 1),
              dev_ino |-> <<u16from(data, 3), u16from(data, 5)>>,
              mode |-> u16from(data, 7),
              uid |-> u16from(data, 9),
              gid |-> u16from(data, 11),
              nlink |-> u16from(data, 13),
              rdev |-> u16from(data, 15),
              mtime |-> <<u16from(data, 17), u16from(data, 19)>>,
              namesize |-> u16from(data, 21),
              filesize |-> <<u16from(data, 23), u16from(data, 25)>>]
    IN IF h.magic = MAGIC THEN Some(h) ELSE None

header_size(h) == (h.rdev * 65536 + h.filesize[1]) * 65536 + h.filesize[2]

\* A test for the trailer that looks at the name alone.
is_trailer_by_name(h, name) == name = TRAILER

is_trailer(h, name) ==
    /\ h.mode = 0
    /\ h.namesize = TRAILER_LEN
    /\ h.filesize = <<0, 0>>
    /\ name = TRAILER

\* EncodedPath::crop_name_to: a path that fits is returned as it is.
crop_name_to(path, max_length) ==
    IF Len(path) <= max_length THEN path
    ELSE LET ext_start == Len(path) - EXTENSION_LENGTH
             dots == {i \in (ext_start + 1)..Len(path) : path[i] = 46}
             dot == IF dots = {} THEN Len(path) + 1
                    ELSE CHOOSE i \in dots : \A j \in dots : j <= i
             extension == SubSeq(path, dot, Len(path))
             space_available == max_length - Len(extension) - HASH_LENGTH
         IN Take(path, space_available) \o [i \in 1..HASH_LENGTH |-> 35] \o extension

from_info(info, name) ==
    LET kind == info.data.tag
        mode == IF kind = "File" THEN 32768 ELSE IF kind = "Dir" THEN 16384 ELSE 8192
        nlink == IF kind = "File" THEN 1 ELSE IF kind = "Dir" THEN 2 ELSE 0
        filesize == IF kind = "File" THEN info.data.size ELSE 0
        \* mode | (info.mode & !0o0170000), then truncated to 16 bits
        cleared == (info.mode % 4096) + (info.mode \div 65536) * 65536
        rdev == (filesize \div 65536) \div 65536
    IN [magic |-> MAGIC,
        dev_ino |-> convert_u32(info.inode),
        mode |-> (mode + cleared) % 65536,
        uid |-> 0,
        gid |-> 0,
        nlink |-> nlink,
        rdev |-> rdev % 65536,
        mtime |-> encode_timestamp(info.modified_at),
        namesize |-> (Len(name) + 1) % 65536,
        filesize |-> convert_u32(filesize)]

\* An encode that never pads the name.
encode_unpadded(info) ==
    LET name == crop_name_to(info.path, MaxNameLen)
    IN into_array(from_info(info, name)) \o name \o <<0>>

encode(info) ==
    LET name == crop_name_to(info.path, MaxNameLen)
        header == from_info(info, name)
    IN into_array(header) \o name \o <<0>>
       \o (IF header.namesize % 2 # 0 THEN <<0>> ELSE <<>>)

\* The stream of an archive without files that the test named empty expects.
EMPTY ==
    << 199, 113,  0, 0,  0, 0,  0, 0,  0, 0,  0, 0,  1, 0,  0, 0,  0, 0, 0, 0,
       11, 0,  0, 0, 0, 0,
       84, 82, 65, 73, 76, 69, 82, 33, 33, 33, 0,
       0,
       91, 93 >>

\* A trailer that never pads its name.
header_trailer_unpadded(content) ==
    LET header == [magic |-> MAGIC, dev_ino |-> <<0, 0>>, mode |-> 0, uid |-> 0,
                   gid |-> 0, nlink |-> 0, rdev |-> 0, mtime |-> <<0, 0>>,
                   namesize |-> TRAILER_LEN, filesize |-> <<0, 0>>]
    IN into_array(header) \o TRAILER \o content

header_trailer(content) ==
    LET header == [magic |-> MAGIC, dev_ino |-> <<0, 0>>, mode |-> 0, uid |-> 0,
                   gid |-> 0, nlink |-> 0, rdev |-> 0, mtime |-> <<0, 0>>,
                   namesize |-> TRAILER_LEN, filesize |-> <<0, 0>>]
    IN into_array(header) \o TRAILER
       \o (IF TRAILER_LEN % 2 # 0 THEN <<0>> ELSE <<>>) \o content

\* CpioHeader::info: what the reader reports for an entry.
header_info(h, name) ==
    LET kind == (h.mode \div 4096) * 4096
    IN [path |-> name,
        inode |-> decode_u32(h.dev_ino),
        mode |-> h.mode % 512,
        user_id |-> 0,
        group_id |-> 0,
        created_at |-> 0,
        modified_at |-> decode_u32(h.mtime),
        hash |-> None,
        data |-> IF kind = 32768 THEN [tag |-> "File", size |-> header_size(h)]
                 ELSE IF kind = 16384 THEN [tag |-> "Dir", size |-> 0]
                 ELSE [tag |-> "Unknown", size |-> 0]]

\* ------------------------------------------------------- manifest (JSON)
\* serde_json::to_vec / from_slice of Vec<Info>, reduced to a self-delimiting
\* byte encoding: '[' record (',' record)* ']', every record in braces with
\* its fields in declaration order.
info_to_json(info) ==
    <<123, Len(info.path)>> \o info.path \o <<info.inode>> \o u16le(info.mode)
    \o <<info.user_id, info.group_id, info.created_at, info.modified_at>>
    \o (IF IsSome(info.hash) THEN <<1>> \o u16le(info.hash[1]) ELSE <<0>>)
    \o (IF info.data.tag = "File" THEN <<1, info.data.size>>
        ELSE IF info.data.tag = "Dir" THEN <<2>> ELSE <<3>>)
    \o <<125>>

RECURSIVE json_records(_)
json_records(infos) ==
    IF infos = <<>> THEN <<>>
    ELSE info_to_json(Head(infos))
         \o (IF Tail(infos) = <<>> THEN <<>> ELSE <<44>>)
         \o json_records(Tail(infos))

to_vec(infos) == <<91>> \o json_records(infos) \o <<93>>

\* One record starting at index i of b: [ok, info, next].
json_record_at(b, i) ==
    LET bad == [ok |-> FALSE, info |-> <<>>, next |-> i]
        n == Len(b)
    IN IF i + 1 > n \/ b[i] # 123 THEN bad
       ELSE
       LET plen == b[i + 1]
           p == i + 2 + plen          \* index of inode
       IN IF p + 6 > n THEN bad
          ELSE
          LET hflag == b[p + 7]
              d == IF hflag = 1 THEN p + 10 ELSE p + 8    \* index of data tag
          IN IF p + 7 > n \/ hflag \notin {0, 1} \/ d > n \/ b[d] \notin {1, 2, 3} THEN bad
             ELSE
             LET e == IF b[d] = 1 THEN d + 2 ELSE d + 1   \* index of '}'
             IN IF e > n \/ b[e] # 125 THEN bad
                ELSE [ok |-> TRUE,
                      info |-> Some([path |-> SubSeq(b, i + 2, i + 1 + plen),
                                inode |-> b[p],
                                mode |-> u16from(b, p + 1),
                                user_id |-> b[p + 3],
                                group_id |-> b[p + 4],
                                created_at |-> b[p + 5],
                                modified_at |-> b[p + 6],
                                hash |-> IF hflag = 1 THEN Some(u16from(b, p + 8)) ELSE None,
                                data |-> IF b[d] = 1 THEN [tag |-> "File", size |-> b[d + 1]]
                                         ELSE IF b[d] = 2 THEN [tag |-> "Dir", size |-> 0]
                                         ELSE [tag |-> "Unknown", size |-> 0]]),
                      next |-> e + 1]

RECURSIVE json_rest(_, _, _)
json_rest(b, i, acc) ==
    LET r == json_record_at(b, i)
    IN IF ~r.ok THEN [ok |-> FALSE, files |-> <<>>]
       ELSE IF r.next = Len(b) /\ b[r.next] = 93
            THEN [ok |-> TRUE, files |-> acc \o r.info]
       ELSE IF r.next < Len(b) /\ b[r.next] = 44
            THEN json_rest(b, r.next + 1, acc \o r.info)
       ELSE [ok |-> FALSE, files |-> <<>>]

from_slice(b) ==
    IF Len(b) < 2 \/ b[1] # 91 THEN [ok |-> FALSE, files |-> <<>>]
    ELSE IF b = <<91, 93>> THEN [ok |-> TRUE, files |-> <<>>]
    ELSE json_rest(b, 2, <<>>)


\* ------------------------------------------------------------- variables
VARIABLES
    archive,    \* Archive.files: the queued Pending records
    state,      \* writer::State with the fields of the current variant
    smart,      \* SmartReader: the spill buffer and its read position
    bufreader,  \* the BufReader around the stream: buffer and position
    env,        \* the outside: outcome of the open future, readiness of the disk
    out,        \* every byte the caller has received so far
    ret,        \* what the caller's last read returned
    eos,        \* a read into a non-empty buffer has returned zero bytes
    emitted,    \* per queued file, the content bytes put into the stream
    extract     \* cpio::Reader run over the finished stream

cpioVars == <<archive, state, smart, bufreader, env, out, ret, eos, emitted, extract>>

VARIABLES
    snapshots,  \* the store: per snapshot its name and the rows of its snap table
    diff,       \* the diff table of the last comparison and what the call returned
    i128_align, \* alignment of i128 on the target the program was built for
    tables,     \* the diff table of each diff database in the store directory
    sqlite      \* what the linked SQLite answers to the Changed statement

diffVars == <<snapshots, diff, i128_align, tables, sqlite>>

VARIABLES
    packer,          \* one call of pack: its arguments, its position, its locals
    overflow_checks  \* whether the build panics on integer overflow or wraps

packVars == <<packer, overflow_checks>>

VARIABLES
    store,   \* the store directory: the catalogue and the snapshot databases
    db,      \* the Database value of the running session and its Snapshot
    filler   \* the SnapshotFiller and the rows inside its transaction

storeVars == <<store, db, filler>>

VARIABLES
    gen      \* the last call of generate_id and what it returned

idVars == <<gen>>

VARIABLES
    stream_hash, \* a StreamHash around a source, and the ReadBuf of its caller
    sink_hash    \* a StreamHash around a sink, and the bytes its caller writes

hashVars == <<stream_hash, sink_hash>>

VARIABLES
    cloud        \* cloud::State: its two tables, and the last call and its answer

cloudVars == <<cloud>>

VARIABLES
    aws          \* backup::Aws: one call of abort_all_multiparts and its requests

awsVars == <<aws>>

VARIABLES
    sized        \* one file size, the header fields written for it, and size() of them

sizeVars == <<sized>>

VARIABLES
    conn         \* one connection: the databases attached to it, the live handles

attachVars == <<conn>>

\* What the actions of one part leave alone: the variables of the others.
notCpio == <<diffVars, packVars, storeVars, idVars, hashVars, cloudVars, awsVars, sizeVars, attachVars>>
notDiff == <<cpioVars, packVars, storeVars, idVars, hashVars, cloudVars, awsVars, sizeVars, attachVars>>
notPack == <<cpioVars, diffVars, storeVars, idVars, hashVars, cloudVars, awsVars, sizeVars, attachVars>>
notStore == <<cpioVars, diffVars, packVars, idVars, hashVars, cloudVars, awsVars, sizeVars, attachVars>>
notId == <<cpioVars, diffVars, packVars, storeVars, hashVars, cloudVars, awsVars, sizeVars, attachVars>>
notHash == <<cpioVars, diffVars, packVars, storeVars, idVars, cloudVars, awsVars, sizeVars, attachVars>>
notCloud == <<diffVars, packVars, storeVars, idVars, hashVars, awsVars, sizeVars, attachVars>>
notAws == <<cpioVars, diffVars, packVars, storeVars, idVars, hashVars, cloudVars, sizeVars, attachVars>>
notSize == <<cpioVars, diffVars, packVars, storeVars, idVars, hashVars, cloudVars, awsVars, attachVars>>
notAttach == <<cpioVars, diffVars, packVars, storeVars, idVars, hashVars, cloudVars, awsVars, sizeVars>>

\* ------------------------------------------------------- the file system
\* What lies on disk under each path the model queues.
DiskContent(path) ==
    CASE path = <<97>> -> <<>>
      [] path = <<98, 99>> -> <<7>>
      [] path = <<100>> -> <<0, 7>>
      [] path = <<101, 102>> -> <<7, 0, 7>>
      [] path = <<103>> -> <<7, 7, 0, 0>>
      [] OTHER -> <<>>

\* Info::with_metadata of a regular file, then (optionally) an expected size or
\* hash that the disk does not meet.
FileInfoOf(path, size, hash) ==
    [path |-> path, inode |-> 5, mode |-> 33188, user_id |-> 1, group_id |-> 1,
     created_at |-> 1, modified_at |-> 2, hash |-> hash,
     data |-> [tag |-> "File", size |-> size]]

Candidates ==
    LET good(p) == FileInfoOf(p, Len(DiskContent(p)), None)
    IN << good(<<97>>),
          good(<<98, 99>>),
          FileInfoOf(<<100>>, 2, Some(Sha256(DiskContent(<<100>>)))),
          FileInfoOf(<<100>>, 3, None),
          FileInfoOf(<<98, 99>>, 1, Some(Sha256(<<9>>))),
          good(<<101, 102>>),
          FileInfoOf(<<101, 102>>, 2, None),
          FileInfoOf(<<103>>, 4, Some(Sha256(<<9>>))) >>

\* Pending::new
NewPending(info) == [info |-> info, calculated |-> None]

\* Archives of up to MaxFiles queued files, taken from Candidates in order.
RECURSIVE ArchivesFrom(_, _)
ArchivesFrom(k, n) ==
    IF n = 0 \/ k > Len(Candidates) THEN {<<>>}
    ELSE ArchivesFrom(k + 1, n)
         \cup {<<NewPending(Candidates[k])>> \o a : a \in ArchivesFrom(k + 1, n - 1)}

Archives == ArchivesFrom(1, MaxFiles)

\* ------------------------------------------------------------ Pending
NoErr == [kind |-> "none", expected |-> 0, found |-> 0]
ErrOf(kind) == [kind |-> kind, expected |-> 0, found |-> 0]

\* The advisory locks the stream holds, as the set of the positions of the
\* files whose open handle one of its values owns.  Dropping the value that
\* owns the handle closes the file and with it gives the lock back.
release_late(e) == e

release(e) == [e EXCEPT !.locked = {}]

\* fs2's lock_exclusive on the file just opened.
lock_exclusive(e, i) == [e EXCEPT !.locked = @ \cup {i}]

NoReading == [tag |-> "Invalid", data |-> <<>>, start |-> 0, hasher |-> Sha256New, length |-> 0]

\* Pending::read, once the future is ready: the file is opened and locked, and
\* by its length on disk either read whole or kept open for streaming.
pending_read(pending) ==
    LET data == DiskContent(pending.info.path)
        size == Len(data)
    IN IF size < SmallLimit
       THEN [NoReading EXCEPT !.tag = "SmallBegin", !.data = data]
       ELSE [NoReading EXCEPT !.tag = "Large", !.data = data]

check_size(found, pending) ==
    IF pending.info.data.tag = "File" /\ pending.info.data.size # found
    THEN [kind |-> "SizeMismatch", expected |-> pending.info.data.size, found |-> found]
    ELSE NoErr

check_hash(found, pending) ==
    IF IsSome(pending.info.hash) /\ found # pending.info.hash[1]
    THEN [kind |-> "HashMismatch", expected |-> pending.info.hash[1], found |-> found]
    ELSE NoErr

\* The two checks of do_check! at the end of a file, size first.
end_checks(length, checksum, pending) ==
    IF check_size(length, pending) # NoErr THEN check_size(length, pending)
    ELSE check_hash(checksum, pending)

\* Reading::poll_read into a buffer of n bytes.
\* Result: [rd, pending, e, res, bytes, err], res one of "ok", "pending", "err".
ReadingRes(rd, pending, e, res, bytes, err) ==
    [rd |-> rd, pending |-> pending, e |-> e, res |-> res, bytes |-> bytes, err |-> err]

small_continue(rd, pending, e, n) ==
    LET slice == Drop(rd.data, rd.start)
        to_read == Min(n, Len(slice))
    IN IF slice = <<>>
       THEN ReadingRes([rd EXCEPT !.tag = "Done"], pending, e, "ok", <<>>, NoErr)
       ELSE ReadingRes([rd EXCEPT !.tag = "SmallContinue", !.start = @ + to_read],
                       pending, e, "ok", Take(slice, to_read), NoErr)

\* The arm of the streamed path that a read of zero bytes takes.
large_eof(rd, pending, e, n) ==
    IF n = 0
    THEN LET checksum == rd.hasher
             bad == end_checks(rd.length, checksum, pending)
         IN IF bad # NoErr
            THEN ReadingRes([rd EXCEPT !.tag = "Mismatch"], pending, release(e), "err",
                            <<>>, bad)
            ELSE ReadingRes([rd EXCEPT !.tag = "Done"],
                            [pending EXCEPT !.calculated = Some(checksum)],
                            release(e), "ok", <<>>, NoErr)
    ELSE ReadingRes(rd, pending, e, "ok", <<>>, NoErr)

reading_poll_read(rd, pending, e, n) ==
    IF rd.tag \in {"Mismatch", "Error"}
        THEN ReadingRes(rd, pending, e, "ok", <<>>, NoErr)
    ELSE IF rd.tag = "SmallBegin"
        THEN LET checksum == Sha256(rd.data)
                 bad == end_checks(Len(rd.data), checksum, pending)
             IN IF bad # NoErr
                THEN ReadingRes([rd EXCEPT !.tag = "Mismatch"], pending, e, "err", <<>>, bad)
                ELSE small_continue(rd, [pending EXCEPT !.calculated = Some(checksum)], e, n)
    ELSE IF rd.tag = "SmallContinue"
        THEN small_continue(rd, pending, e, n)
    ELSE IF rd.tag = "Large"
        THEN LET left == Len(rd.data) - rd.length
                 len == Min(n, Min(left, e.avail))
             IN IF e.ioerr
                THEN ReadingRes([rd EXCEPT !.tag = "Error"], pending, release(e), "err", <<>>,
                                ErrOf("Io"))
                ELSE IF left > 0 /\ n > 0 /\ e.avail = 0
                THEN ReadingRes(rd, pending, e, "pending", <<>>, NoErr)
                ELSE IF len = 0
                THEN large_eof(rd, pending, e, n)
                ELSE LET slice == SubSeq(rd.data, rd.length + 1, rd.length + len)
                     IN ReadingRes([rd EXCEPT !.hasher = Sha256Update(@, slice),
                                              !.length = @ + len],
                                   pending, [e EXCEPT !.avail = @ - len], "ok", slice, NoErr)
    ELSE ReadingRes([rd EXCEPT !.tag = "Invalid"], pending, e, "err", <<>>,
                    ErrOf("InternalVeryBadError"))


\* ------------------------------------------------------------ SmartBuf
\* real: the bytes put into the caller's ReadBuf during this poll; cap: the
\* room that ReadBuf had; buffer: the spill of the SmartReader.
NewSmartBuf(cap) ==
    [real |-> <<>>, cap |-> cap, buffer |-> <<>>, is_empty |-> TRUE, is_eof |-> FALSE]

remaining(b) == b.cap - Len(b.real)

\* A put_slice that loses the first byte that does not fit the caller's buffer.
put_slice_lossy(b, slice) ==
    IF slice = <<>> THEN b
    ELSE LET mid == remaining(b)
         IN IF mid > Len(slice)
            THEN [b EXCEPT !.real = @ \o slice, !.is_empty = FALSE]
            ELSE [b EXCEPT !.real = @ \o Take(slice, mid),
                           !.buffer = @ \o Drop(slice, mid + 1),
                           !.is_empty = FALSE]


put_slice(b, slice) ==
    IF slice = <<>> THEN b
    ELSE LET mid == remaining(b)
         IN IF mid > Len(slice)
            THEN [b EXCEPT !.real = @ \o slice, !.is_empty = FALSE]
            ELSE [b EXCEPT !.real = @ \o Take(slice, mid),
                           !.buffer = @ \o Drop(slice, mid),
                           !.is_empty = FALSE]

\* SmartBuf::fill_using: res is "pending", "err", "eof" (Ok(None)) or "some".
fill_using(b, rd, pending, e) ==
    With(reading_poll_read(rd, pending, e, remaining(b)), LAMBDA r :
        LET capacity == remaining(b)
            filled == Len(r.bytes)
        IN IF r.res # "ok" THEN [b |-> b, r |-> r, res |-> r.res, written |-> <<>>]
           ELSE IF filled = 0 /\ capacity # 0
                THEN [b |-> b, r |-> r, res |-> "eof", written |-> <<>>]
           ELSE [b |-> IF filled # 0
                       THEN [b EXCEPT !.real = @ \o r.bytes, !.is_empty = FALSE]
                       ELSE b,
                 r |-> r, res |-> "some", written |-> r.bytes])

\* ------------------------------------------------------ writer machine
NewState == [tag |-> "None", position |-> 0, length |-> 0, rd |-> NoReading]

\* Archive::trailer
archive_trailer(files) ==
    LET infos == [i \in 1..Len(files) |->
                    [files[i].info EXCEPT
                        !.hash = IF IsSome(files[i].calculated)
                                 THEN files[i].calculated ELSE files[i].info.hash]]
    IN header_trailer(to_vec(infos))

AdvRes(sys, b, res, err) == [sys |-> sys, b |-> b, res |-> res, err |-> err]

\* A None state that goes to the trailer whether files remain or not.
advance_none_trailer(sys, b) ==
    AdvRes([sys EXCEPT !.st.tag = "Trailer"], b, "ready", NoErr)

advance_none(sys, b) ==
    IF sys.st.position < Len(sys.files)
    THEN AdvRes([sys EXCEPT !.st.tag = "Header"], b, "ready", NoErr)
    ELSE AdvRes([sys EXCEPT !.st.tag = "Trailer"], b, "ready", NoErr)

advance_header(sys, b) ==
    LET file == sys.files[sys.st.position + 1]
    IN AdvRes([sys EXCEPT !.st.tag = "OpeningFile"],
              put_slice(b, encode(file.info)), "ready", NoErr)

\* An OpeningFile state whose future never becomes ready.
advance_opening_pending(sys, b) == AdvRes(sys, b, "pending", NoErr)

advance_opening(sys, b) ==
    IF sys.e.open = "pending" THEN AdvRes(sys, b, "pending", NoErr)
    ELSE IF sys.e.open = "err" THEN AdvRes(sys, b, "failed", ErrOf("CantOpen"))
    ELSE With(pending_read(sys.files[sys.st.position + 1]), LAMBDA rd :
         With(lock_exclusive(sys.e, sys.st.position + 1), LAMBDA locked :
            AdvRes([sys EXCEPT !.st.tag = "File",
                               !.st.length = 0,
                               !.st.rd = rd,
                               !.e = [(IF rd.tag = "Large" THEN locked ELSE release(locked))
                                      EXCEPT !.open = "pending"]],
                   b, "ready", NoErr)))

\* A File state that never pads an odd content.
advance_file_nopad(sys, b) ==
    With(fill_using(b, sys.st.rd, sys.files[sys.st.position + 1], sys.e), LAMBDA f :
    With([sys EXCEPT !.st.rd = f.r.rd,
                     !.files[sys.st.position + 1] = f.r.pending,
                     !.e = f.r.e], LAMBDA after :
        CASE f.res = "pending" -> AdvRes(after, f.b, "pending", NoErr)
          [] f.res = "err" -> AdvRes(after, f.b, "failed", f.r.err)
          [] f.res = "eof" ->
               AdvRes([after EXCEPT !.st.tag = "None",
                                    !.st.position = @ + 1,
                                    !.st.length = 0,
                                    !.st.rd = NoReading,
                                    !.e = release([@ EXCEPT !.avail = 0,
                                                            !.ioerr = FALSE])],
                      f.b, "ready", NoErr)
          [] OTHER ->
               AdvRes([after EXCEPT !.st.length = @ + Len(f.written),
                                    !.em[sys.st.position + 1] = @ \o f.written],
                      f.b, "ready", NoErr)))


advance_file(sys, b) ==
    With(fill_using(b, sys.st.rd, sys.files[sys.st.position + 1], sys.e), LAMBDA f :
    With([sys EXCEPT !.st.rd = f.r.rd,
                     !.files[sys.st.position + 1] = f.r.pending,
                     !.e = f.r.e], LAMBDA after :
        CASE f.res = "pending" -> AdvRes(after, f.b, "pending", NoErr)
          [] f.res = "err" -> AdvRes(after, f.b, "failed", f.r.err)
          [] f.res = "eof" ->
               AdvRes([after EXCEPT !.st.tag = "None",
                                    !.st.position = @ + 1,
                                    !.st.length = 0,
                                    !.st.rd = NoReading,
                                    !.e = release([@ EXCEPT !.avail = 0,
                                                            !.ioerr = FALSE])],
                      IF sys.st.length % 2 # 0 THEN put_slice(f.b, <<0>>) ELSE f.b,
                      "ready", NoErr)
          [] OTHER ->
               AdvRes([after EXCEPT !.st.length = @ + Len(f.written),
                                    !.em[sys.st.position + 1] = @ \o f.written],
                      f.b, "ready", NoErr)))

advance_trailer(sys, b) ==
    AdvRes([sys EXCEPT !.st.tag = "Eof"], put_slice(b, archive_trailer(sys.files)),
           "ready", NoErr)

\* An Eof state that falls back to Trailer after signalling the end.
advance_eof_restart(sys, b) ==
    AdvRes([sys EXCEPT !.st.tag = "Trailer"], [b EXCEPT !.is_eof = TRUE], "ready", NoErr)


advance_eof(sys, b) ==
    AdvRes(sys, [b EXCEPT !.is_eof = TRUE], "ready", NoErr)

\* A machine that, after a failed step, goes on with the next file.
amortized_read_skipping(sys, b) ==
    IF sys.st.tag = "Poisoned" THEN AdvRes(sys, b, "failed", ErrOf("Poisoned"))
    ELSE With(CASE sys.st.tag = "None" -> advance_none(sys, b)
                [] sys.st.tag = "Header" -> advance_header(sys, b)
                [] sys.st.tag = "OpeningFile" -> advance_opening(sys, b)
                [] sys.st.tag = "File" -> advance_file(sys, b)
                [] sys.st.tag = "Trailer" -> advance_trailer(sys, b)
                [] OTHER -> advance_eof(sys, b),
              LAMBDA r :
                IF r.res = "failed"
                THEN [r EXCEPT !.sys.st = [NewState EXCEPT !.position = sys.st.position + 1],
                               !.sys.e = release([open |-> "pending", avail |-> 0,
                                                  ioerr |-> FALSE,
                                                  locked |-> r.sys.e.locked])]
                ELSE r)

\* State::amortized_read: one step of the machine; a failed step poisons it.
amortized_read(sys, b) ==
    IF sys.st.tag = "Poisoned" THEN AdvRes(sys, b, "failed", ErrOf("Poisoned"))
    ELSE With(CASE sys.st.tag = "None" -> advance_none(sys, b)
                [] sys.st.tag = "Header" -> advance_header(sys, b)
                [] sys.st.tag = "OpeningFile" -> advance_opening(sys, b)
                [] sys.st.tag = "File" -> advance_file(sys, b)
                [] sys.st.tag = "Trailer" -> advance_trailer(sys, b)
                [] OTHER -> advance_eof(sys, b),
              LAMBDA r :
                IF r.res = "failed"
                THEN [r EXCEPT !.sys.st = [NewState EXCEPT !.tag = "Poisoned"],
                               !.sys.e = release([open |-> "pending", avail |-> 0,
                                                  ioerr |-> FALSE,
                                                  locked |-> r.sys.e.locked])]
                ELSE r)

\* ------------------------------------------------------------ SmartReader
PollRes(sr, sys, bytes, res, err) ==
    [sr |-> sr, sys |-> sys, bytes |-> bytes, res |-> res, err |-> err]

\* The loop of SmartReader::poll_read: step the machine until it writes,
\* blocks, fails or marks the end.
RECURSIVE smart_loop(_, _)
smart_loop(sys, b) ==
    With(amortized_read(sys, b), LAMBDA r :
        LET sr == [buffer |-> r.b.buffer, start |-> 0]
        IN IF r.res = "pending" THEN PollRes(sr, r.sys, <<>>, "pending", NoErr)
           ELSE IF r.res = "failed" THEN PollRes(sr, r.sys, <<>>, "err", r.err)
           ELSE IF ~r.b.is_empty THEN PollRes(sr, r.sys, r.b.real, "ok", NoErr)
           ELSE IF r.b.is_eof THEN PollRes(sr, r.sys, r.b.real, "ok", NoErr)
           ELSE smart_loop(r.sys, r.b))

smart_poll_read(sr, sys, cap) ==
    IF cap = 0 THEN PollRes(sr, sys, <<>>, "ok", NoErr)
    ELSE LET buffered == Drop(sr.buffer, sr.start)
             to_write == Min(Len(buffered), cap)
         IN IF buffered # <<>>
            THEN PollRes([sr EXCEPT !.start = @ + to_write], sys,
                         Take(buffered, to_write), "ok", NoErr)
            ELSE smart_loop(sys, NewSmartBuf(cap))

\* ------------------------------------------------------------ Energetic
\* Energetic::poll_read: poll the inner reader until the buffer is full, the
\* inner reader blocks, fails or makes no progress.
RECURSIVE energetic_loop(_, _, _, _, _)
energetic_loop(sr, sys, acc, previous, is_pending) ==
    IF previous = 0 THEN PollRes(sr, sys, acc, "ok", NoErr)
    ELSE With(smart_poll_read(sr, sys, previous), LAMBDA r :
            LET new == previous - Len(r.bytes)
            IN IF r.res = "pending"
               THEN PollRes(r.sr, r.sys, acc, IF is_pending THEN "pending" ELSE "ok", NoErr)
               ELSE IF r.res = "err" THEN PollRes(r.sr, r.sys, <<>>, "err", r.err)
               ELSE IF new = previous THEN PollRes(r.sr, r.sys, acc, "ok", NoErr)
               ELSE energetic_loop(r.sr, r.sys, acc \o r.bytes, new, FALSE))

energetic_poll_read(sr, sys, cap) == energetic_loop(sr, sys, <<>>, cap, TRUE)


\* ------------------------------------------------------------ BufReader
\* tokio's BufReader::poll_read: a read at least as large as the internal
\* buffer bypasses it when it is empty; any other read refills it if it is
\* empty and then copies from it.
NewBufReader == [buf |-> <<>>, pos |-> 0]

BufRes(br, r, bytes, res, err) ==
    [br |-> br, sr |-> r.sr, sys |-> r.sys, bytes |-> bytes, res |-> res, err |-> err]

bufreader_poll_read(br, sr, sys, cap) ==
    IF br.pos = Len(br.buf) /\ cap >= BufSize
    THEN With(energetic_poll_read(sr, sys, cap), LAMBDA r :
            IF r.res = "pending" THEN BufRes(br, r, <<>>, "pending", NoErr)
            ELSE BufRes(NewBufReader, r, r.bytes, r.res, r.err))
    ELSE IF br.pos >= Len(br.buf)
    THEN With(energetic_poll_read(sr, sys, BufSize), LAMBDA r :
            LET amt == Min(Len(r.bytes), cap)
            IN IF r.res # "ok" THEN BufRes(br, r, <<>>, r.res, r.err)
               ELSE BufRes([buf |-> r.bytes, pos |-> amt], r, Take(r.bytes, amt),
                           "ok", NoErr))
    ELSE LET rem == Drop(br.buf, br.pos)
             amt == Min(Len(rem), cap)
         IN BufRes([br EXCEPT !.pos = @ + amt], [sr |-> sr, sys |-> sys],
                   Take(rem, amt), "ok", NoErr)

\* ------------------------------------------------------- cpio::Reader
NoHeader == decode(into_array(from_info(FileInfoOf(<<>>, 0, None), <<>>)))[1]

NewExtract ==
    [phase |-> "entry", pos |-> 0, header |-> NoHeader, filename |-> <<>>,
     items |-> <<>>, skipped |-> {}, files |-> None, err |-> "none"]

ExtractFailed(x, err) == [x EXCEPT !.phase = "failed", !.err = err]

\* Reader::advance over the bytes input, from position x.pos.
reader_advance(x, input) ==
    LET n == Len(input)
        hend == x.pos + HeaderSize
    IN IF hend > n THEN ExtractFailed(x, "IoFailed")
       ELSE
       LET h == decode(SubSeq(input, x.pos + 1, hend))
       IN IF h = None THEN ExtractFailed(x, "InvalidHeader")
          ELSE
          LET header == h[1]
              nend == hend + header.namesize
              filename == SubSeq(input, hend + 1, nend)
              padded == IF header.namesize % 2 # 0 THEN nend + 1 ELSE nend
          IN IF nend > n THEN ExtractFailed(x, "IoFailed")
             ELSE IF filename = <<>> \/ filename[Len(filename)] # 0
                  THEN ExtractFailed(x, "InvalidName")
             ELSE IF padded > n THEN ExtractFailed(x, "IoFailed")
             ELSE IF is_trailer(header, filename)
                  THEN LET json == Drop(input, padded)
                           parsed == from_slice(json)
                       IN IF \A i \in 1..Len(json) : json[i] = 0
                          THEN [x EXCEPT !.phase = "end", !.pos = n, !.files = None]
                          ELSE IF ~parsed.ok
                          THEN ExtractFailed([x EXCEPT !.pos = n], "CantDeserializeArchive")
                          ELSE [x EXCEPT !.phase = "end", !.pos = n,
                                         !.files = Some(parsed.files)]
             ELSE [x EXCEPT !.phase = "file", !.pos = padded,
                            !.header = header, !.filename = filename]

\* ReadFile::info
readfile_info(x) == header_info(x.header, Take(x.filename, Len(x.filename) - 1))

\* ReadFile::drain_to: at most size bytes go to the destination, then the
\* padding byte of an odd size is read.
reader_drain_to(x, input) ==
    LET size == header_size(x.header)
        avail == Len(input) - x.pos
        got == Min(size, avail)
        item == [info |-> readfile_info(x),
                 content |-> SubSeq(input, x.pos + 1, x.pos + got)]
        done == [x EXCEPT !.pos = @ + got, !.items = Append(@, item)]
    IN IF size % 2 # 0
       THEN IF x.pos + got + 1 > Len(input) THEN ExtractFailed(done, "IoFailed")
            ELSE [done EXCEPT !.phase = "entry", !.pos = @ + 1]
       ELSE [done EXCEPT !.phase = "entry"]

\* A skip that seeks over the content and leaves the padding byte.
reader_skip_unpadded(x, input) ==
    [x EXCEPT !.phase = "entry", !.pos = @ + header_size(x.header),
              !.skipped = @ \cup {Len(x.items) + Cardinality(x.skipped) + 1}]

\* ReadFile::skip: a seek over the content and the padding byte of an odd
\* size, relative to the current position (which may pass the end).
reader_skip(x, input) ==
    LET size == header_size(x.header)
        padded == IF size % 2 # 0 THEN size + 1 ELSE size
    IN [x EXCEPT !.phase = "entry", !.pos = @ + padded,
                 !.skipped = @ \cup {Len(x.items) + Cardinality(x.skipped) + 1}]

\* ---------------------------------------------------------------- actions
NewEnv == [open |-> "pending", avail |-> 0, ioerr |-> FALSE, locked |-> {}]

CpioInit ==
    /\ archive \in Archives
    /\ state = NewState
    /\ smart = [buffer |-> <<>>, start |-> 0]
    /\ bufreader = NewBufReader
    /\ env = NewEnv
    /\ out = <<>>
    /\ ret = [res |-> "none", empty |-> TRUE, err |-> NoErr]
    /\ eos = FALSE
    /\ emitted = [i \in 1..Len(archive) |-> <<>>]
    /\ extract = NewExtract

\* The caller reads from Archive::read() into a buffer of cap bytes.
Read(cap) ==
    \E r \in {bufreader_poll_read(bufreader, smart,
                                   [files |-> archive, st |-> state, e |-> env,
                                    em |-> emitted],
                                   cap)} :
       /\ extract.phase = "entry" /\ extract.pos = 0
       /\ archive' = r.sys.files
       /\ state' = r.sys.st
       /\ env' = r.sys.e
       /\ emitted' = r.sys.em
       /\ smart' = r.sr
       /\ bufreader' = r.br
       /\ out' = IF r.res = "ok" THEN out \o r.bytes ELSE out
       /\ ret' = [res |-> r.res, empty |-> (r.bytes = <<>>), err |-> r.err]
       /\ eos' = (eos \/ (r.res = "ok" /\ r.bytes = <<>>))
       /\ UNCHANGED extract
       /\ UNCHANGED notCpio

\* The future of Pending::read completes: the file is open and locked, or
\* opening, locking or reading it has failed.
OpenCompletes(outcome) ==
    /\ state.tag \in {"Header", "OpeningFile"}
    /\ env.open = "pending"
    /\ env' = [env EXCEPT !.open = outcome]
    /\ UNCHANGED <<archive, state, smart, bufreader, out, ret, eos, emitted, extract>>
    /\ UNCHANGED notCpio

\* The disk has k more bytes of the streamed file ready.
DiskReady(k) ==
    /\ state.tag = "File" /\ state.rd.tag = "Large"
    /\ env.avail = 0 /\ ~env.ioerr
    /\ env' = [env EXCEPT !.avail = k]
    /\ UNCHANGED <<archive, state, smart, bufreader, out, ret, eos, emitted, extract>>
    /\ UNCHANGED notCpio

\* Reading the streamed file fails.
DiskFails ==
    /\ state.tag = "File" /\ state.rd.tag = "Large"
    /\ ~env.ioerr
    /\ env' = [env EXCEPT !.ioerr = TRUE]
    /\ UNCHANGED <<archive, state, smart, bufreader, out, ret, eos, emitted, extract>>
    /\ UNCHANGED notCpio

\* Reader::advance on the finished stream.
ReaderAdvance ==
    /\ eos /\ extract.phase = "entry"
    /\ extract' = reader_advance(extract, out)
    /\ UNCHANGED <<archive, state, smart, bufreader, env, out, ret, eos, emitted>>
    /\ UNCHANGED notCpio

\* ReadFile::drain_to of the entry just returned.
ReaderDrainTo ==
    /\ eos /\ extract.phase = "file"
    /\ extract' = reader_drain_to(extract, out)
    /\ UNCHANGED <<archive, state, smart, bufreader, env, out, ret, eos, emitted>>
    /\ UNCHANGED notCpio

\* ReadFile::skip of the entry just returned.
ReaderSkip ==
    /\ eos /\ extract.phase = "file"
    /\ extract' = reader_skip(extract, out)
    /\ UNCHANGED <<archive, state, smart, bufreader, env, out, ret, eos, emitted>>
    /\ UNCHANGED notCpio

CpioNext ==
    \/ \E cap \in 1..MaxCap : Read(cap)
    \/ \E outcome \in {"ok", "err"} : OpenCompletes(outcome)
    \/ \E k \in 1..MaxChunk : DiskReady(k)
    \/ DiskFails
    \/ ReaderAdvance
    \/ ReaderDrainTo

\* Largest number of calls of amortized_read followed from one state.
MaxPasses == 6

\* ------------------------------------------------------------ progress
\* The file is opened and locked without an error.
OpenSucceeds == OpenCompletes("ok")

\* The steps of a stream whose files open and whose reads do not fail.
ProgressNext ==
    \/ \E cap \in 1..MaxCap : Read(cap)
    \/ OpenSucceeds
    \/ \E k \in 1..MaxChunk : DiskReady(k)

\* ------------------------------------------------------------ file locks
\* Largest number of files in an archive whose locks are followed.
MaxLockFiles == 2

\* The first poll of the future of Pending::read: the file is opened and
\* locked, and the future waits for the metadata or for the content.
OpenLocks ==
    /\ state.tag = "OpeningFile"
    /\ env.open = "pending"
    /\ env.locked = {}
    /\ env' = lock_exclusive(env, state.position + 1)
    /\ UNCHANGED <<archive, state, smart, bufreader, out, ret, eos, emitted, extract>>
    /\ UNCHANGED notCpio

\* The caller drops the stream: the state, with the future or the reader it
\* owns, is dropped whatever it is.
DropStream ==
    /\ state.tag # "Dropped"
    /\ state' = [NewState EXCEPT !.tag = "Dropped"]
    /\ env' = release(env)
    /\ UNCHANGED <<archive, smart, bufreader, out, ret, eos, emitted, extract>>
    /\ UNCHANGED notCpio

\* A read of a stream that still exists.
LockRead(cap) ==
    /\ state.tag # "Dropped"
    /\ Read(cap)

LockInit ==
    /\ CpioInit
    /\ Len(archive) <= MaxLockFiles

LockNext ==
    \/ \E cap \in 1..MaxCap : LockRead(cap)
    \/ \E outcome \in {"ok", "err"} : OpenCompletes(outcome)
    \/ OpenLocks
    \/ \E k \in 1..MaxChunk : DiskReady(k)
    \/ DiskFails
    \/ DropStream

\* ======================================================= snapshot store
\* Largest number of entries a walk finds below the root directory.
MaxEntries == 2
\* Width of the snapshot ordinal and of the row ordinal inside a row id
\* (23 and 40 bits in the program, scaled).
TableBits == 3
RowBits == 4

\* DiffType
Deleted == 1
Created == 2
Changed == 4

\* The bitwise operators of u8 and u64.
RECURSIVE BitAnd(_, _)
BitAnd(a, b) ==
    IF a = 0 \/ b = 0 THEN 0
    ELSE (a % 2) * (b % 2) + 2 * BitAnd(a \div 2, b \div 2)

BitOr(a, b) == a + b - BitAnd(a, b)

\* generate_id: (table_id << RowBits) | row_id
generate_id(table_id, row_id) ==
    IF table_id >= 2 ^ TableBits
    THEN [ok |-> FALSE, err |-> "TooManySnapshots", id |-> 0]
    ELSE IF row_id >= 2 ^ RowBits
    THEN [ok |-> FALSE, err |-> "TooManyRows", id |-> 0]
    ELSE [ok |-> TRUE, err |-> "none", id |-> BitOr(table_id * (2 ^ RowBits), row_id)]

\* ------------------------------------------------------------ the walk
\* What walkdir and the OS report for one entry: path and std::fs::Metadata.
\* Times are in seconds.
Meta(path, kind, inode, created, modified, len) ==
    [path |-> path, kind |-> kind, inode |-> inode,
     mode |-> IF kind = "File" THEN 33188 ELSE IF kind = "Dir" THEN 16877 ELSE 41471,
     user_id |-> 1, group_id |-> 1,
     created |-> created, modified |-> modified, len |-> len]

\* WalkDir yields the root itself first.
RootEntry == Meta(<<47>>, "Dir", 2, 0, 0, 0)

\* Entries below the root: a file, the same file after a modification, the
\* same file under another name, a second file, a directory and a symlink.
WalkCandidates ==
    << Meta(<<47, 97>>, "File", 11, 0, 0, 1),
       Meta(<<47, 97>>, "File", 11, 0, 1, 1),
       Meta(<<47, 98>>, "File", 11, 0, 0, 1),
       Meta(<<47, 99>>, "File", 12, 1, 1, 0),
       Meta(<<47, 100>>, "Dir", 13, 0, 0, 0),
       Meta(<<47, 101>>, "Unknown", 14, 0, 0, 0) >>

RECURSIVE WalksFrom(_, _)
WalksFrom(k, n) ==
    IF n = 0 \/ k > Len(WalkCandidates) THEN {<<>>}
    ELSE LET c == WalkCandidates[k]
         IN WalksFrom(k + 1, n)
            \cup {<<c>> \o w : w \in {v \in WalksFrom(k + 1, n - 1) :
                                       \A i \in 1..Len(v) : /\ v[i].path # c.path
                                                            /\ v[i].inode # c.inode}}

Walks == {<<RootEntry>> \o w : w \in WalksFrom(1, MaxEntries)}

\* ------------------------------------------------------------ fileinfo
extract_kind(metadata) ==
    IF metadata.kind = "File" THEN [tag |-> "File", size |-> metadata.len]
    ELSE IF metadata.kind = "Dir" THEN [tag |-> "Dir", size |-> 0]
    ELSE [tag |-> "Unknown", size |-> 0]

with_metadata(path, metadata) ==
    [path |-> path,
     inode |-> metadata.inode,
     mode |-> metadata.mode,
     user_id |-> metadata.user_id,
     group_id |-> metadata.group_id,
     created_at |-> metadata.created,
     modified_at |-> metadata.modified,
     hash |-> None,
     data |-> extract_kind(metadata)]

unix_timestamp_nanos(t) == t * 1000000000

\* An identifier that leaves the modification time out.
identifier_without_mtime(info) ==
    IF info.data.tag = "File"
    THEN Some([inode |-> info.inode,
               ctime |-> unix_timestamp_nanos(info.created_at),
               size |-> info.data.size,
               mtime |-> 0])
    ELSE None

\* Info::identifier: None unless the entry is a regular file.
identifier(info) ==
    IF info.data.tag = "File"
    THEN Some([inode |-> info.inode,
               ctime |-> unix_timestamp_nanos(info.created_at),
               size |-> info.data.size,
               mtime |-> unix_timestamp_nanos(info.modified_at)])
    ELSE None

\* Info::size
size(info) == IF info.data.tag = "File" THEN Some(info.data.size) ELSE None

RECURSIVE le_bytes(_, _)
le_bytes(x, n) == IF n = 0 THEN <<>> ELSE <<x % 256>> \o le_bytes(x \div 256, n - 1)

\* FileIdentifier::as_bytes: the memory of the repr(C) struct
\* { u64, i128, u64, i128 }.  Where i128 is aligned to 16 bytes each u64 is
\* followed by 8 padding bytes, which the struct literal never writes: they
\* hold whatever was there (pad).
as_bytes(id, align, pad) ==
    LET padding == IF align = 16 THEN [i \in 1..8 |-> pad] ELSE <<>>
    IN le_bytes(id.inode, 8) \o padding \o le_bytes(id.ctime, 16)
       \o le_bytes(id.size, 8) \o padding \o le_bytes(id.mtime, 16)

\* A filler whose identifier column also covers the path.
add_path_keyed(rows, first_id, entry, align, pad) ==
    LET info == with_metadata(entry.path, entry)
        ident == identifier(info)
    IN Append(rows,
              [id |-> first_id + Len(rows) + 1,
               path |-> info.path,
               identifier |-> IF IsSome(ident)
                              THEN as_bytes(ident[1], align, pad) \o info.path
                              ELSE <<>>,
               info |-> info_to_json(info),
               size |-> size(info)])

\* ------------------------------------------------------------ snapshot
\* SnapshotFiller::add: one row of the snap table.  The id is what
\* AUTOINCREMENT hands out after the rows inserted so far.
add(rows, first_id, entry, align, pad) ==
    LET info == with_metadata(entry.path, entry)
        ident == identifier(info)
    IN Append(rows,
              [id |-> first_id + Len(rows) + 1,
               path |-> info.path,
               identifier |-> IF IsSome(ident) THEN as_bytes(ident[1], align, pad)
                              ELSE <<>>,
               info |-> info_to_json(info),
               size |-> size(info)])

\* SnapshotFiller::fill: every entry of the walk, in walk order.
RECURSIVE fill_from(_, _, _, _, _)
fill_from(rows, first_id, walk, align, pads) ==
    IF walk = <<>> THEN rows
    ELSE fill_from(add(rows, first_id, Head(walk), align, Head(pads)),
                   first_id, Tail(walk), align, Tail(pads))

\* The padding bytes each as_bytes of a walk may find.
PadChoices(walk, align) ==
    {p \in [1..Len(walk) -> {0, 1}] :
        \A i \in 1..Len(walk) : (align # 16 \/ walk[i].kind # "File") => p[i] = 0}

\* SqlName::now(), in the order the clock hands the names out.
SnapshotNames == <<"at_1", "at_2">>

\* ---------------------------------------------------------------- diff
NoDiff == [before |-> 0, after |-> 0, rows |-> <<>>, res |-> "none", removed |-> 0]

\* The diff databases of the store, one file diff_<before>_vs_<after>.db for
\* each pair of snapshots; a file stays on disk when its Diff is dropped
\* (Drop only detaches it).  CREATE TABLE IF NOT EXISTS makes an empty
\* table in a new file and keeps the table of an old one.
SnapshotPairs == (1..Len(SnapshotNames)) \X (1..Len(SnapshotNames))
NoTables == [p \in SnapshotPairs |-> <<>>]

\* The answers of the SQLite library the program is linked with.
SqliteAnswers ==
    {[accepted |-> FALSE, side |-> "after"],
     [accepted |-> TRUE, side |-> "before"],
     [accepted |-> TRUE, side |-> "after"]}

\* DELETE FROM diff, with every row left in place.
delete_from_keeps(table) == table

\* DELETE FROM {name}.diff: the table is empty afterwards.
delete_from(table) == <<>>

\* Diff::fill.  execute_batch runs the statements one by one, each in its own
\* implicit transaction: truncation, Deleted, Created, Changed.  The SELECT
\* of the Changed statement names size and path without a table although
\* both joined tables have them, and joins the table with itself when a
\* snapshot is compared with itself.  What SQLite answers is not decided in
\* this repository: `accepted` is that answer (SQLite 3.40 rejects the
\* statement as ambiguous), `side` the table an accepting engine takes size
\* and path from.  A self-join is rejected in any case.  A rejected statement
\* ends the batch with SqliteFailed and the rows inserted before it stay.
\* `table` is the diff table as Diff::new found it; `removed` is the number
\* of rows the truncation took out.
fill(table, before, after, accepted, side) ==
    LET idents(rows) == {rows[i].identifier : i \in 1..Len(rows)}
        map(rows, f(_)) == [i \in 1..Len(rows) |-> f(rows[i])]
        deleted ==
            map(SelectSeq(before.rows,
                          LAMBDA r : r.identifier \notin idents(after.rows)),
                LAMBDA r : [before |-> Some(r.id), after |-> None, type |-> Deleted,
                            size |-> r.size, path |-> r.path])
        created ==
            map(SelectSeq(after.rows,
                          LAMBDA r : r.identifier \notin idents(before.rows)),
                LAMBDA r : [before |-> None, after |-> Some(r.id), type |-> Created,
                            size |-> r.size, path |-> r.path])
        nb == Len(before.rows)
        joined == [k \in 1..(Len(after.rows) * nb) |->
                     [a |-> after.rows[((k - 1) \div nb) + 1],
                      b |-> before.rows[((k - 1) % nb) + 1]]]
        changed ==
            map(SelectSeq(joined,
                          LAMBDA j : /\ j.a.identifier = j.b.identifier
                                     /\ j.a.info # j.b.info),
                LAMBDA j : [before |-> Some(j.b.id), after |-> Some(j.a.id),
                            type |-> Changed,
                            size |-> IF side = "after" THEN j.a.size ELSE j.b.size,
                            path |-> IF side = "after" THEN j.a.path ELSE j.b.path])
        resolved == accepted /\ before.name # after.name
        truncated == delete_from(table)
        removed == Len(table) - Len(truncated)
    IN IF resolved
       THEN [rows |-> truncated \o deleted \o created \o changed, res |-> "ok",
             removed |-> removed]
       ELSE [rows |-> truncated \o deleted \o created, res |-> "SqliteFailed",
             removed |-> removed]

\* ---------------------------------------------------------- diff query
\* Diff::query: every kind, every size (u64::MAX is the largest integer here).
query == [enabled_kinds |-> 7, min_size |-> 0, max_size |-> 2147483647]

only_kind(q, kind) == [q EXCEPT !.enabled_kinds = kind]

\* DiffQuery::select: a NULL size satisfies neither comparison.
select(rows, q) ==
    SelectSeq(rows, LAMBDA r : /\ BitAnd(r.type, q.enabled_kinds) # 0
                               /\ IsSome(r.size)
                               /\ q.min_size <= r.size[1]
                               /\ r.size[1] <= q.max_size)

count(rows, q) == Len(select(rows, q))

\* serde_json::from_str of the info column, as DiffQuery::load_info reads it.
from_str(json) == json_record_at(json, 1).info[1]

\* -------------------------------------------------------- store actions
\* create_snapshot: open_snapshot under a fresh name, walk the tree and
\* save.  A walk that fails rolls the rows back and leaves the new
\* snapshot empty.
TakeSnapshot(walk, pads, walked) ==
    LET first_id == generate_id(Len(snapshots), 0)
    IN /\ Len(snapshots) < Len(SnapshotNames)
       /\ first_id.ok
       /\ snapshots' =
            Append(snapshots,
                   [name |-> SnapshotNames[Len(snapshots) + 1],
                    rows |-> IF walked
                             THEN fill_from(<<>>, first_id.id, walk, i128_align, pads)
                             ELSE <<>>])
       /\ UNCHANGED <<diff, i128_align, tables, sqlite>>
       /\ UNCHANGED notDiff

\* compare_snapshots(before, after) with two snapshots of this store:
\* Diff::new attaches the diff database, creates the table and fills it.
Compare(b, a) ==
    \E filled \in {fill(tables[<<b, a>>], snapshots[b], snapshots[a],
                         sqlite.accepted, sqlite.side)} :
       /\ diff' = [before |-> b, after |-> a, rows |-> filled.rows,
                   res |-> filled.res, removed |-> filled.removed]
       /\ tables' = [tables EXCEPT ![<<b, a>>] = filled.rows]
       /\ UNCHANGED <<snapshots, i128_align, sqlite>>
       /\ UNCHANGED notDiff

DiffIdle ==
    /\ snapshots = <<>>
    /\ diff = NoDiff
    /\ i128_align = 8
    /\ tables = NoTables
    /\ sqlite = [accepted |-> FALSE, side |-> "after"]

CpioIdle ==
    /\ archive = <<>>
    /\ state = NewState
    /\ smart = [buffer |-> <<>>, start |-> 0]
    /\ bufreader = NewBufReader
    /\ env = NewEnv
    /\ out = <<>>
    /\ ret = [res |-> "none", empty |-> TRUE, err |-> NoErr]
    /\ eos = FALSE
    /\ emitted = <<>>
    /\ extract = NewExtract

DiffInit ==
    /\ CpioIdle
    /\ snapshots = <<>>
    /\ diff = NoDiff
    /\ i128_align \in {8, 16}
    /\ tables = NoTables
    /\ sqlite \in SqliteAnswers

DiffNext ==
    \/ \E walk \in Walks, walked \in BOOLEAN :
          \E pads \in PadChoices(walk, i128_align) : TakeSnapshot(walk, pads, walked)
    \/ \E b \in 1..Len(snapshots), a \in 1..Len(snapshots) : Compare(b, a)

\* ================================================================ packer
\* Largest number of rows in the diff that pack is given.
MaxPackRows == 5

\* u64::MAX (the largest integer of the model).
U64Max == 2147483647

\* DiffQuery::with_size, less_than and larger_or_eq.  less_than computes
\* size - 1 in u64: this is its value in a build that wraps on overflow (a
\* build with overflow checks panics instead, see PackCollect).
with_size(q, lo, hi) == [q EXCEPT !.min_size = lo, !.max_size = hi]

less_than(q, sz) == with_size(q, 0, IF sz = 0 THEN U64Max ELSE sz - 1)

larger_or_eq(q, sz) == with_size(q, sz, U64Max)

\* DiffQuery::for_each: the matching rows in table order, each with its ROWID
\* (the position in the table, which every fill empties first).
for_each(rows, q) ==
    LET numbered == [i \in 1..Len(rows) |->
                       [rowid |-> i, type |-> rows[i].type, size |-> rows[i].size,
                        path |-> rows[i].path]]
        matching == select(numbered, q)
    IN [i \in 1..Len(matching) |->
          [rowid |-> matching[i].rowid, kind |-> matching[i].type,
           size |-> matching[i].size[1], path |-> matching[i].path]]

\* The closure both loops of pack hand to for_each keeps Changed and Created.
PackedKinds(found) == SelectSeq(found, LAMBDA r : r.kind \in {Changed, Created})

\* EncodedPath::prefixes: the empty prefix, then the path up to each slash.
prefixes(path) ==
    LET slashes == SelectSeq([i \in 1..Len(path) |-> i], LAMBDA i : path[i] = 47)
    IN <<<<>>>> \o [k \in 1..Len(slashes) |-> Take(path, slashes[k] - 1)]

\* The directory a File points to: the last prefix of its path.
directory(path) == prefixes(path)[Len(prefixes(path))]

RECURSIVE Distinct(_, _)
Distinct(s, seen) ==
    IF s = <<>> THEN <<>>
    ELSE IF Head(s) \in seen THEN Distinct(Tail(s), seen)
    ELSE <<Head(s)>> \o Distinct(Tail(s), seen \cup {Head(s)})

\* The trie of directories after the first loop of pack, as the keys in the
\* order in which the Directory values were allocated.
directories(small) ==
    Distinct(Concat([i \in 1..Len(small) |-> prefixes(small[i].path)]), {})

\* Directory.subdirs: the children, in the order they were pushed.
subdirs(dirs, dir) == SelectSeq(dirs, LAMBDA k : k # <<>> /\ directory(k) = dir)

RECURSIVE forward(_, _, _)
forward(dirs, front, n) ==
    IF n = 0 THEN <<>>
    ELSE front \o forward(dirs,
                          Concat([i \in 1..Len(front) |-> subdirs(dirs, front[i])]),
                          n - 1)

\* find_related_directories of a file in directory dir.
find_related_directories(dirs, dir) ==
    forward(dirs, <<dir>>, 4)
    \o (IF dir = <<>> THEN <<>>
        ELSE LET backwards == directory(dir)
             IN <<backwards>>
                \o (IF backwards = <<>> THEN <<>> ELSE <<directory(backwards)>>)
                \o SelectSeq(subdirs(dirs, backwards), LAMBDA x : x # dir))

\* Ord for File: by size, then by rowid.
file_cmp_less(a, b) == a.size < b.size \/ (a.size = b.size /\ a.rowid < b.rowid)

\* The iteration order of a BTreeSet of files.
RECURSIVE btree_iter(_)
btree_iter(files) ==
    IF files = {} THEN <<>>
    ELSE LET first == CHOOSE x \in files : \A y \in files : y = x \/ file_cmp_less(x, y)
         IN <<first>> \o btree_iter(files \ {first})

\* The files the two nested loops of a grouping step meet, in that order.
related_files(dirs, in_dir, largest) ==
    LET related == find_related_directories(dirs, directory(largest.path))
    IN Concat([i \in 1..Len(related) |-> btree_iter(in_dir[related[i]])])

\* Directory.files of every directory after files were taken out of them
\* (f.directory.files.borrow_mut().remove(f)).
remove_nothing(in_dir, gone) == in_dir

remove_files(in_dir, gone) == [d \in DOMAIN in_dir |-> in_dir[d] \ gone]

\* The body of the inner loop: top and min_size after one more file.
top_push(acc, file, files_to_add) ==
    IF Len(acc.top) < files_to_add
    THEN [top |-> Append(acc.top, file), min_size |-> Min(acc.min_size, file.size)]
    ELSE IF file.size >= acc.min_size THEN acc
    ELSE LET larger == {i \in 1..Len(acc.top) : acc.top[i].size > file.size}
         IN IF larger = {}
            THEN [top |-> Append(acc.top, file), min_size |-> acc.min_size]
            ELSE LET idx == CHOOSE i \in larger : \A j \in larger : j <= i
                 IN [top |-> Append(Take(acc.top, idx - 1) \o Drop(acc.top, idx), file),
                     min_size |-> file.size]

RECURSIVE top_of(_, _, _)
top_of(acc, met, files_to_add) ==
    IF met = <<>> THEN acc.top
    ELSE top_of(top_push(acc, Head(met), files_to_add), Tail(met), files_to_add)

\* The rows a diff may hold when pack is called: files of three directory
\* levels, of every kind.
DiffRowOf(type, sz, path) ==
    [before |-> IF type = Created THEN None ELSE Some(1),
     after |-> IF type = Deleted THEN None ELSE Some(1),
     type |-> type, size |-> Some(sz), path |-> path]

PackCandidates ==
    << DiffRowOf(Created, 9, <<112, 47, 113, 47, 102>>),
       DiffRowOf(Created, 6, <<97, 47, 103>>),
       DiffRowOf(Created, 1, <<97, 47, 104>>),
       DiffRowOf(Created, 5, <<97, 47, 105>>),
       DiffRowOf(Changed, 3, <<97, 47, 98, 47, 106>>),
       DiffRowOf(Deleted, 2, <<97, 47, 107>>),
       DiffRowOf(Created, 12, <<109>>),
       DiffRowOf(Changed, 4, <<110>>) >>

RECURSIVE PackInputsFrom(_, _)
PackInputsFrom(k, n) ==
    IF n = 0 \/ k > Len(PackCandidates) THEN {<<>>}
    ELSE PackInputsFrom(k + 1, n)
         \cup {<<PackCandidates[k]>> \o w : w \in PackInputsFrom(k + 1, n - 1)}

PackInputs == PackInputsFrom(1, MaxPackRows)

\* The thresholds pack is called with: zero, one between the sizes and one
\* above every size.
Thresholds == {0, 4, 13}

\* --------------------------------------------------------- pack, by step
NewPacker(rows, min_size) ==
    [rows |-> rows, min_size |-> min_size, phase |-> "start", files |-> {},
     dirs |-> <<>>, in_dir |-> <<>>, size_of_pack |-> 2, result |-> <<>>]

\* The first loop: the rows below min_size become the files and directories.
\* With min_size = 0 less_than subtracts from zero.
PackCollect ==
    /\ packer.phase = "start"
    /\ IF packer.min_size = 0 /\ overflow_checks
       THEN packer' = [packer EXCEPT !.phase = "panicked"]
       ELSE LET small == PackedKinds(for_each(packer.rows,
                                              less_than(query, packer.min_size)))
            IN packer' = [packer EXCEPT
                            !.phase = "grouping",
                            !.dirs = directories(small),
                            !.in_dir = [d \in {directories(small)[k] :
                                               k \in 1..Len(directories(small))} |->
                                          {[rowid |-> small[i].rowid,
                                            size |-> small[i].size,
                                            path |-> small[i].path] :
                                             i \in {j \in 1..Len(small) :
                                                      directory(small[j].path) = d}}],
                            !.files = {[rowid |-> small[i].rowid, size |-> small[i].size,
                                        path |-> small[i].path] : i \in 1..Len(small)}]
    /\ UNCHANGED overflow_checks
    /\ UNCHANGED notPack

\* One turn of the grouping loop: the largest file left and the files chosen
\* around it make a pack.
PackGroup ==
    /\ packer.phase = "grouping"
    /\ packer.files # {}
    /\ LET ordered == btree_iter(packer.files)
           largest == ordered[Len(ordered)]
           files_to_add == packer.size_of_pack - 1
           top == top_of([top |-> <<>>, min_size |-> U64Max],
                         related_files(packer.dirs,
                                       remove_files(packer.in_dir, {largest}), largest),
                         files_to_add)
           pack == [i \in 1..Len(top) |-> top[i].rowid] \o <<largest.rowid>>
       IN packer' = [packer EXCEPT
                       !.files = (@ \ {largest}) \ {top[i] : i \in 1..Len(top)},
                       !.in_dir = remove_files(remove_files(@, {largest}),
                                               {top[i] : i \in 1..Len(top)}),
                       !.size_of_pack = @ + 1,
                       !.result = Append(@, pack)]
    /\ UNCHANGED overflow_checks
    /\ UNCHANGED notPack

\* The last loop: every row of at least min_size becomes a pack of its own.
PackLarge ==
    /\ packer.phase = "grouping"
    /\ packer.files = {}
    /\ LET large == PackedKinds(for_each(packer.rows,
                                         larger_or_eq(query, packer.min_size)))
       IN packer' = [packer EXCEPT
                       !.phase = "done",
                       !.result = @ \o [i \in 1..Len(large) |-> <<large[i].rowid>>]]
    /\ UNCHANGED overflow_checks
    /\ UNCHANGED notPack

PackIdle ==
    /\ packer = NewPacker(<<>>, 1)
    /\ overflow_checks = FALSE

PackInit ==
    /\ packer \in {NewPacker(rows, s) : rows \in PackInputs, s \in Thresholds}
    /\ overflow_checks \in BOOLEAN

PackNext ==
    \/ PackCollect
    \/ PackGroup
    \/ PackLarge

\* ====================================================== generate_id, twice
\* generate_id of backup/database.rs: the same checks, but the snapshot
\* ordinal is shifted by its own width instead of the width of the row
\* ordinal.
backup_generate_id(table_id, row_id) ==
    IF table_id >= 2 ^ TableBits
    THEN [ok |-> FALSE, err |-> "TooManySnapshots", id |-> 0]
    ELSE IF row_id >= 2 ^ RowBits
    THEN [ok |-> FALSE, err |-> "TooManyRows", id |-> 0]
    ELSE [ok |-> TRUE, err |-> "none", id |-> BitOr(table_id * (2 ^ TableBits), row_id)]

NoCall == [of |-> "none", table_id |-> 0, row_id |-> 0,
           res |-> [ok |-> FALSE, err |-> "none", id |-> 0]]

\* generate_id called by the database module
GenerateId(table_id, row_id) ==
    /\ gen' = [of |-> "database", table_id |-> table_id, row_id |-> row_id,
               res |-> generate_id(table_id, row_id)]
    /\ UNCHANGED notId

\* generate_id called by the backup module
BackupGenerateId(table_id, row_id) ==
    /\ gen' = [of |-> "backup", table_id |-> table_id, row_id |-> row_id,
               res |-> backup_generate_id(table_id, row_id)]
    /\ UNCHANGED notId

IdIdle == gen = NoCall

IdNext ==
    \/ \E table_id \in 0..(2 ^ TableBits), row_id \in 0..(2 ^ RowBits) :
          GenerateId(table_id, row_id)
    \/ \E table_id \in 0..(2 ^ TableBits), row_id \in 0..(2 ^ RowBits) :
          BackupGenerateId(table_id, row_id)

\* ======================================================== store sessions
\* Largest number of rows in one snapshot, and of filler saves on one store.
MaxStoreRows == 1
MaxSaves == 2

\* The names snapshots are opened under: two timestamps and the name
\* empty_snapshot uses.
StoreNames == {SnapshotNames[i] : i \in 1..Len(SnapshotNames)} \cup {"empty_snap"}

\* The entries a filler is given.
StoreEntries == {RootEntry, WalkCandidates[1]}

\* The store directory: per snapshot database its name, the id its snap
\* table started from, its committed rows and filled_at of its catalogue
\* row; clock is the time of the last save.
EmptyStore == [snaps |-> <<>>, clock |-> 0]

\* The Database value and the Snapshot borrowed from it.
ClosedDb == [open |-> FALSE, snapshot_count |-> 0, snap |-> None, writable |-> FALSE]

NoFiller == [state |-> "none", snap |-> "", rows |-> <<>>]

is_snapshot_exists(st, name) == \E i \in 1..Len(st.snaps) : st.snaps[i].name = name

snapshot_of(st, name) == CHOOSE i \in 1..Len(st.snaps) : st.snaps[i].name = name

\* Database::open: snapshot_count is the number of catalogue rows.
open(st) ==
    [open |-> TRUE, snapshot_count |-> Len(st.snaps), snap |-> None, writable |-> FALSE]

\* Database::init_snapshot: creates the snap table and the catalogue row in
\* one transaction unless the snapshot exists.
init_snapshot(st, snapshot_count, name) ==
    IF is_snapshot_exists(st, name) THEN [store |-> st, created |-> FALSE, res |-> "ok"]
    ELSE With(generate_id(snapshot_count, 0), LAMBDA first_id :
            IF ~first_id.ok THEN [store |-> st, created |-> FALSE, res |-> first_id.err]
            ELSE [store |-> [st EXCEPT !.snaps =
                               Append(@, [name |-> name, first_id |-> first_id.id,
                                          rows |-> <<>>, filled_at |-> 0])],
                  created |-> TRUE, res |-> "ok"])

\* Database::open_snapshot
open_snapshot(st, d, name) ==
    With(init_snapshot(st, d.snapshot_count, name), LAMBDA r :
        [store |-> r.store,
         db |-> IF r.res # "ok" THEN d
                ELSE [d EXCEPT !.snapshot_count = IF r.created THEN @ + 1 ELSE @,
                               !.snap = Some(name), !.writable = TRUE]])

\* Database::empty_snapshot
empty_snapshot(st, d) ==
    With(init_snapshot(st, d.snapshot_count, "empty_snap"), LAMBDA r :
        [store |-> r.store,
         db |-> IF r.res # "ok" THEN d
                ELSE [d EXCEPT !.snap = Some("empty_snap"), !.writable = FALSE]])

\* The row SnapshotFiller::add inserts inside the transaction.
filler_add(st, f, entry, align) ==
    LET snap == st.snaps[snapshot_of(st, f.snap)]
        rows == add(snap.rows \o f.rows, snap.first_id, entry, align, 0)
    IN [f EXCEPT !.rows = Append(@, rows[Len(rows)])]

\* A transaction that is dropped without commit but keeps its inserts.
rollback_keeps_rows(st, f) ==
    [st EXCEPT !.snaps[snapshot_of(st, f.snap)].rows = @ \o f.rows]

\* Transaction dropped with DropBehavior::Rollback.
rollback(st, f) == st

\* SnapshotFiller::save: filled_at is written and the transaction commits.
save(st, f) ==
    LET k == snapshot_of(st, f.snap)
    IN [st EXCEPT !.clock = @ + 1,
                  !.snaps[k].rows = @ \o f.rows,
                  !.snaps[k].filled_at = st.clock + 1]

Open ==
    /\ ~db.open
    /\ db' = open(store)
    /\ UNCHANGED <<store, filler>>
    /\ UNCHANGED notStore

\* The Database value is dropped.
Close ==
    /\ db.open /\ db.snap = None
    /\ db' = ClosedDb
    /\ UNCHANGED <<store, filler>>
    /\ UNCHANGED notStore

OpenSnapshot(name) ==
    /\ db.open /\ db.snap = None
    /\ \E r \in {open_snapshot(store, db, name)} :
          /\ store' = r.store
          /\ db' = r.db
    /\ UNCHANGED filler
    /\ UNCHANGED notStore

EmptySnapshot ==
    /\ db.open /\ db.snap = None
    /\ \E r \in {empty_snapshot(store, db)} :
          /\ store' = r.store
          /\ db' = r.db
    /\ UNCHANGED filler
    /\ UNCHANGED notStore

\* The Snapshot value is dropped.
DropSnapshot ==
    /\ db.snap # None /\ filler.state # "open"
    /\ db' = [db EXCEPT !.snap = None, !.writable = FALSE]
    /\ UNCHANGED <<store, filler>>
    /\ UNCHANGED notStore

\* Snapshot::filler
NewFiller ==
    /\ db.snap # None /\ db.writable /\ filler.state # "open"
    /\ filler' = [state |-> "open", snap |-> db.snap[1], rows |-> <<>>]
    /\ UNCHANGED <<store, db>>
    /\ UNCHANGED notStore

\* SnapshotFiller::add, as fill calls it: an entry that cannot be read ends
\* the walk and drops the filler.
FillerAdd(entry, readable) ==
    /\ filler.state = "open"
    /\ IF readable
       THEN /\ Len(store.snaps[snapshot_of(store, filler.snap)].rows) + Len(filler.rows)
                 < MaxStoreRows
            /\ filler' = filler_add(store, filler, entry, i128_align)
            /\ store' = store
       ELSE /\ filler' = [filler EXCEPT !.state = "dropped", !.snap = ""]
            /\ store' = rollback(store, filler)
    /\ UNCHANGED db
    /\ UNCHANGED notStore

FillerSave ==
    /\ filler.state = "open"
    /\ store.clock < MaxSaves
    /\ store' = save(store, filler)
    /\ filler' = [NoFiller EXCEPT !.state = "saved"]
    /\ UNCHANGED db
    /\ UNCHANGED notStore

\* The filler is dropped without save.
FillerDrop ==
    /\ filler.state = "open"
    /\ store' = rollback(store, filler)
    /\ filler' = [filler EXCEPT !.state = "dropped", !.snap = ""]
    /\ UNCHANGED db
    /\ UNCHANGED notStore

StoreIdle ==
    /\ store = EmptyStore
    /\ db = ClosedDb
    /\ filler = NoFiller

StoreNext ==
    \/ Open
    \/ Close
    \/ \E name \in StoreNames : OpenSnapshot(name)
    \/ EmptySnapshot
    \/ DropSnapshot
    \/ NewFiller
    \/ \E entry \in StoreEntries, readable \in BOOLEAN : FillerAdd(entry, readable)
    \/ FillerSave
    \/ FillerDrop

\* =========================================================== StreamHash
\* Largest length of the source behind the StreamHash.
MaxHashData == 3

\* Capacity of the buffer the caller reads into.
HashCapacity == 2

\* Largest number of poll_read calls on one StreamHash.
MaxHashReads == 4

\* The sources: every byte sequence of the bounded length over two values.
HashSources == UNION {[1..n -> {1, 2}] : n \in 0..MaxHashData}

\* StreamHash::new around a source at its start, and an empty ReadBuf.
\* `taken` are the bytes the caller has moved out of its buffer.
NewStreamHash(data) ==
    [inner |-> [data |-> data, pos |-> 0],
     digest |-> Sha256New,
     buf |-> <<>>,
     taken |-> <<>>,
     res |-> "none",
     reads |-> 0,
     output |-> None]

\* AsyncRead::poll_read of StreamHash.  The inner source answers Pending,
\* an error, or Ready(Ok) after appending n bytes to the filled part of the
\* buffer; n is 0 only at the end of the source or in a full buffer.  On
\* Ready(Ok) the whole filled part of the buffer goes into the digest.
poll_read(h, outcome, n) ==
    IF outcome = "Ready"
    THEN With(h.buf \o SubSeq(h.inner.data, h.inner.pos + 1, h.inner.pos + n),
              LAMBDA filled :
                  [h EXCEPT !.inner.pos = @ + n,
                            !.buf = filled,
                            !.digest = Sha256Update(@, filled),
                            !.res = "Ready",
                            !.reads = @ + 1])
    ELSE [h EXCEPT !.res = outcome, !.reads = @ + 1]

\* What the inner source may append: at most what it has left and what the
\* buffer has room for, at least one byte if both allow it.
Deliverable(h) ==
    With(Min(HashCapacity - Len(h.buf), Len(h.inner.data) - h.inner.pos),
         LAMBDA most : IF most = 0 THEN {0} ELSE 1..most)

HashRead(outcome, n) ==
    /\ stream_hash.output = None
    /\ stream_hash.reads < MaxHashReads
    /\ outcome = "Ready" => n \in Deliverable(stream_hash)
    /\ outcome # "Ready" => n = 0
    /\ stream_hash' = poll_read(stream_hash, outcome, n)
    /\ UNCHANGED <<sink_hash, notHash>>

\* The caller takes the bytes out of its buffer: ReadBuf::clear, or a new
\* ReadBuf for the next read.
HashClear ==
    /\ stream_hash.output = None
    /\ stream_hash.buf # <<>>
    /\ stream_hash' = [stream_hash EXCEPT !.taken = @ \o stream_hash.buf, !.buf = <<>>]
    /\ UNCHANGED <<sink_hash, notHash>>

\* StreamHash::finalize.
HashFinalize ==
    /\ stream_hash.output = None
    /\ stream_hash' = [stream_hash EXCEPT !.output = Some(stream_hash.digest)]
    /\ UNCHANGED <<sink_hash, notHash>>

\* ------------------------------------------------ StreamHash, write side
\* Largest number of poll_write calls on one StreamHash.
MaxHashWrites == 4

\* StreamHash::new around an empty sink; `src` are the bytes the caller is
\* going to write, `last` the arguments and the answer of the last write.
NewSinkHash(src) ==
    [inner |-> <<>>,
     digest |-> Sha256New,
     src |-> src,
     last |-> [res |-> "none", offered |-> 0, accepted |-> 0],
     writes |-> 0,
     output |-> None]

\* AsyncWrite::poll_write that hashes the buffer it was offered.
poll_write_offered(h, outcome, buf, len) ==
    IF outcome = "Ready"
    THEN [h EXCEPT !.inner = @ \o Take(buf, len),
                   !.digest = Sha256Update(@, buf),
                   !.last = [res |-> "Ready", offered |-> Len(buf), accepted |-> len],
                   !.writes = @ + 1]
    ELSE [h EXCEPT !.last = [res |-> outcome, offered |-> Len(buf), accepted |-> 0],
                   !.writes = @ + 1]

\* AsyncWrite::poll_write of StreamHash.  The inner sink answers Pending, an
\* error, or Ready(Ok(len)) after taking the first len bytes of buf; those
\* len bytes go into the digest.
poll_write(h, outcome, buf, len) ==
    IF outcome = "Ready"
    THEN [h EXCEPT !.inner = @ \o Take(buf, len),
                   !.digest = Sha256Update(@, Take(buf, len)),
                   !.last = [res |-> "Ready", offered |-> Len(buf), accepted |-> len],
                   !.writes = @ + 1]
    ELSE [h EXCEPT !.last = [res |-> outcome, offered |-> Len(buf), accepted |-> 0],
                   !.writes = @ + 1]

\* The caller offers the first k of the bytes it has left; after
\* Ready(Ok(len)) it goes on behind the len bytes the sink took, as
\* write_all does.
HashWrite(outcome, k, len) ==
    /\ sink_hash.output = None
    /\ sink_hash.writes < MaxHashWrites
    /\ k \in 1..Len(sink_hash.src)
    /\ len \in 0..k
    /\ outcome # "Ready" => len = 0
    /\ \E h \in {poll_write(sink_hash, outcome, Take(sink_hash.src, k), len)} :
          sink_hash' = [h EXCEPT !.src = Drop(@, len)]
    /\ UNCHANGED <<stream_hash, notHash>>

\* StreamHash::done: the sink and the digest.
HashDone ==
    /\ sink_hash.output = None
    /\ sink_hash' = [sink_hash EXCEPT !.output = Some(sink_hash.digest)]
    /\ UNCHANGED <<stream_hash, notHash>>

SinkNext ==
    \/ \E outcome \in {"Ready", "Pending", "Err"}, k \in 1..MaxHashData, len \in 0..MaxHashData :
          HashWrite(outcome, k, len)
    \/ HashDone

HashIdle ==
    /\ stream_hash = NewStreamHash(<<>>)
    /\ sink_hash = NewSinkHash(<<>>)

HashInit ==
    /\ stream_hash \in {NewStreamHash(data) : data \in HashSources}
    /\ sink_hash = NewSinkHash(<<>>)

SinkInit ==
    /\ stream_hash = NewStreamHash(<<>>)
    /\ sink_hash \in {NewSinkHash(src) : src \in HashSources}

HashNext ==
    \/ \E outcome \in {"Ready", "Pending", "Err"}, n \in 0..HashCapacity :
          HashRead(outcome, n)
    \/ HashClear
    \/ HashFinalize

\* ========================================================== cloud state
\* Largest number of files in an UploadedArchive handed to set_uploaded.
MaxCloudFiles == 2

\* Largest number of calls of set_uploaded on one State.
MaxCloudCalls == 2

\* Key: the names a cloud provider gives to the archives it stored.
Keys == {1, 2}

\* The tables archives and contents as the schema of State::open names
\* them, both empty; `seq` is the AUTOINCREMENT counter of archives.id.
NewTables == [archives |-> <<>>, contents |-> <<>>, seq |-> 0]

NewCloud ==
    [db |-> NewTables, clock |-> 0,
     call |-> [of |-> "none", res |-> "none", key |-> 0, files |-> <<>>]]

\* {:x} of one byte: hexadecimal, lower case, without a leading zero.
LowerHex(b) ==
    LET digit(d) == IF d < 10 THEN 48 + d ELSE 87 + d
    IN IF b < 16 THEN <<digit(b)>> ELSE <<digit(b \div 16), digit(b % 16)>>

\* Display for Checksum: an opening brace, each byte with {:x}, a closing
\* brace (the digest has two bytes here).
to_string(checksum) ==
    <<123>> \o Concat([i \in 1..2 |-> LowerHex(u16le(checksum)[i])]) \o <<125>>

\* INSERT INTO archives(key, uploaded_at): the new row gets the next id.
insert_archive(tbl, key, uploaded_at) ==
    [tbl EXCEPT !.archives = Append(@, [id |-> tbl.seq + 1, key |-> key,
                                       uploaded_at |-> uploaded_at]),
               !.seq = @ + 1]

\* INSERT INTO contents(hash, archive), once for each file in order; a file
\* without a hash gives a row with NULL.
insert_contents(tbl, files, id) ==
    [tbl EXCEPT !.contents =
        @ \o [i \in 1..Len(files) |->
                [hash |-> IF IsSome(files[i].hash)
                          THEN Some(to_string(files[i].hash[1])) ELSE None,
                 archive |-> id]]]

\* A dropped transaction that leaves its statements in the tables.
drop_txn_keeps(before, inside) == inside

\* Drop of a rusqlite Transaction that was not committed: rollback.
drop_txn(before, inside) == before

\* State::set_uploaded.  `fail.at` names the first statement SQLite
\* refuses: "begin", "archives", "prepare", "contents" (of file number
\* fail.file), "commit", or "none".  Result: [db, res].
set_uploaded(tbl, uploaded, fail) ==
    IF fail.at = "begin" THEN [db |-> tbl, res |-> "SqliteFailed"]
    ELSE IF fail.at = "archives" THEN [db |-> drop_txn(tbl, tbl), res |-> "SqliteFailed"]
    ELSE With(insert_archive(tbl, uploaded.key, uploaded.uploaded_at), LAMBDA s1 :
         IF fail.at = "prepare" THEN [db |-> drop_txn(tbl, s1), res |-> "SqliteFailed"]
         ELSE IF fail.at = "contents"
         THEN [db |-> drop_txn(tbl, insert_contents(s1, Take(uploaded.files, fail.file - 1), s1.seq)),
               res |-> "SqliteFailed"]
         ELSE With(insert_contents(s1, uploaded.files, s1.seq), LAMBDA s2 :
              IF fail.at = "commit" THEN [db |-> drop_txn(tbl, s2), res |-> "SqliteFailed"]
              ELSE [db |-> s2, res |-> "Ok"]))

\* The files of an UploadedArchive: Info values of the later candidates,
\* two of them with a hash and two without.
UploadedFiles ==
    {[i \in 1..Len(a) |-> a[i].info] : a \in ArchivesFrom(5, MaxCloudFiles)}

FailPoints ==
    {[at |-> a, file |-> 0] : a \in {"begin", "archives", "prepare", "commit", "none"}}
    \cup {[at |-> "contents", file |-> k] : k \in 1..MaxCloudFiles}

\* A call of set_uploaded by the owner of the State.
SetUploaded(key, files, fail) ==
    /\ cloud.clock < MaxCloudCalls
    /\ fail.file <= Len(files)
    /\ \E r \in {set_uploaded(cloud.db,
                                [key |-> key, files |-> files,
                                 uploaded_at |-> cloud.clock + 1], fail)} :
          cloud' = [db |-> r.db, clock |-> cloud.clock + 1,
                    call |-> [of |-> "set_uploaded", res |-> r.res,
                              key |-> key, files |-> files]]
    /\ UNCHANGED cpioVars
    /\ UNCHANGED notCloud

\* Largest number of files handed to State::upload.
MaxUploadFiles == 1

\* State::upload after CloudProvider::upload has returned.  The provider
\* reads the archive stream; it answers with a key once the stream has
\* ended, or with an error once the stream has ended or failed.  After a
\* key, set_uploaded records the files as they were handed to upload.
UploadReturns(outcome, key, fail) ==
    /\ cloud.call.of = "none"
    /\ outcome = "Ok" => eos
    /\ outcome = "Err" => (eos \/ ret.res = "err") /\ key = 1 /\ fail.at = "none"
    /\ fail.file <= Len(archive)
    /\ \E files \in {[i \in 1..Len(archive) |-> archive[i].info]} :
          IF outcome = "Err"
          THEN cloud' = [cloud EXCEPT !.call = [of |-> "upload", res |-> "CloudFailed",
                                                key |-> 0, files |-> files]]
          ELSE \E r \in {set_uploaded(cloud.db,
                                       [key |-> key, files |-> files,
                                        uploaded_at |-> cloud.clock + 1], fail)} :
                  cloud' = [db |-> r.db, clock |-> cloud.clock + 1,
                            call |-> [of |-> "upload", res |-> r.res,
                                      key |-> key, files |-> files]]
    /\ UNCHANGED cpioVars
    /\ UNCHANGED notCloud

\* State::upload(files): Archive::new, add for each file, read.
UploadInit ==
    /\ CpioInit
    /\ Len(archive) <= MaxUploadFiles

UploadNext ==
    \/ \E cap \in 1..MaxCap : Read(cap)
    \/ \E outcome \in {"ok", "err"} : OpenCompletes(outcome)
    \/ \E k \in 1..MaxChunk : DiskReady(k)
    \/ DiskFails
    \/ \E outcome \in {"Ok", "Err"}, key \in Keys, fail \in FailPoints :
          UploadReturns(outcome, key, fail)

CloudIdle == cloud = NewCloud

CloudNext ==
    \E key \in Keys, files \in UploadedFiles, fail \in FailPoints :
        SetUploaded(key, files, fail)

\* ================================================= object store requests
\* Largest max_parallel, largest number of uploads one listing returns, and
\* largest number of listings of one call.
MaxParallel == 2
MaxUploads == 3
MaxLists == 2

\* What one abort_upload returns.
AbortOutcomes == {"Ok", "MissingRequiredFields", "AbortUploadFailed"}

\* phase: where abort_all_multiparts is; uploads, next, done, in_flight and
\* results: the futures given to do_many_requests, the first one not yet
\* taken from the iterator, whether the iterator was found empty, the
\* futures in the queue of buffer_unordered and the outputs collected.
NewAws(max_parallel) ==
    [max_parallel |-> max_parallel, phase |-> "new", lists |-> 0,
     uploads |-> 0, truncated |-> FALSE, next |-> 1, done |-> FALSE,
     in_flight |-> {}, results |-> <<>>, ret |-> "none", errors |-> <<>>]

\* One poll of buffer_unordered fills its queue: while the queue is shorter
\* than max_parallel it takes the next future, and it learns that there is
\* none left only by asking for one.
buffer_unordered(a) ==
    LET room == a.max_parallel - Cardinality(a.in_flight)
        left == a.uploads - a.next + 1
        take == IF room < 0 THEN 0 ELSE Min(room, left)
    IN [a EXCEPT !.in_flight = @ \cup (a.next..(a.next + take - 1)),
                 !.next = @ + take,
                 !.done = @ \/ room > left]

\* The errors among the collected results, in the order of the results.
RECURSIVE errors_of(_)
errors_of(results) ==
    IF results = <<>> THEN <<>>
    ELSE (IF Head(results).res = "Ok" THEN <<>> ELSE <<Head(results)>>)
         \o errors_of(Tail(results))

AbortAllMultiparts ==
    /\ aws.phase = "new"
    /\ aws' = [aws EXCEPT !.phase = "listing"]
    /\ UNCHANGED notAws

\* list_multipart_uploads answers: an error, no uploads field, or n uploads,
\* whose aborts are handed to do_many_requests and polled at once.
ListReturns(outcome, n, truncated) ==
    /\ aws.phase = "listing"
    /\ aws.lists < MaxLists
    /\ aws' = CASE outcome = "Err" ->
                    [aws EXCEPT !.phase = "returned", !.ret = "ListUploadsFailed",
                                !.lists = @ + 1]
                [] outcome = "None" ->
                    [aws EXCEPT !.phase = IF truncated THEN "listing" ELSE "returned",
                                !.ret = IF truncated THEN @ ELSE "Ok",
                                !.lists = @ + 1]
                [] OTHER ->
                    buffer_unordered([aws EXCEPT !.phase = "aborting", !.lists = @ + 1,
                                                 !.uploads = n, !.truncated = truncated,
                                                 !.next = 1, !.done = FALSE,
                                                 !.in_flight = {}, !.results = <<>>])
    /\ UNCHANGED notAws

\* The request of the future id in the queue is answered: the poll that
\* follows collects its output and fills the queue again.
AbortCompletes(id, outcome) ==
    /\ aws.phase = "aborting"
    /\ id \in aws.in_flight
    /\ aws' = buffer_unordered([aws EXCEPT !.in_flight = @ \ {id},
                                           !.results = Append(@, [id |-> id, res |-> outcome])])
    /\ UNCHANGED notAws

\* The stream of outputs ends: collect returns, and abort_all_multiparts
\* fails with the errors of the batch, lists again or returns.
Collected ==
    /\ aws.phase = "aborting"
    /\ aws.done /\ aws.in_flight = {}
    /\ aws' = With(errors_of(aws.results), LAMBDA errors :
                  IF errors # <<>>
                  THEN [aws EXCEPT !.phase = "returned", !.ret = "FailedMany",
                                   !.errors = errors]
                  ELSE IF aws.truncated
                  THEN [aws EXCEPT !.phase = "listing"]
                  ELSE [aws EXCEPT !.phase = "returned", !.ret = "Ok"])
    /\ UNCHANGED notAws

AwsIdle == aws = NewAws(1)

AwsInit == aws \in {NewAws(max_parallel) : max_parallel \in 0..MaxParallel}

AwsNext ==
    \/ AbortAllMultiparts
    \/ \E outcome \in {"Err", "None", "Some"}, n \in 0..MaxUploads, truncated \in BOOLEAN :
          ListReturns(outcome, n, truncated)
    \/ \E id \in 1..MaxUploads, outcome \in AbortOutcomes : AbortCompletes(id, outcome)
    \/ Collected

\* ================================================= sizes in the header
\* A u64 too wide for one integer of the checker is kept as its four 16-bit
\* limbs, the lowest first.
LimbValues == {0, 1, 32768, 65535}
Limbs == {<<a, b, c, d>> : a \in LimbValues, b \in LimbValues, c \in LimbValues,
                           d \in {0, 1}}
\* 32-bit numbers the integers of the checker can hold.
Words == {0, 1, 65535, 65536, 65537, 2147418112, 2147483647}

\* filesize >> 32, and filesize & u32::MAX
shr32(x) == <<x[3], x[4], 0, 0>>
low32(x) == <<x[1], x[2], 0, 0>>

\* convert_u32 of the low 32 bits of x: [higher, lower]
convert_u32_limbs(x) == <<x[2], x[1]>>

\* The size fields as from_info fills them: `rdev as u16` and
\* `convert_u32(filesize as u32)`.
size_fields(filesize) ==
    [rdev |-> shr32(filesize)[1], filesize |-> convert_u32_limbs(low32(filesize))]

\* A size() that forgets the bits kept in rdev.
size_limbs_low(h) == <<h.filesize[2], h.filesize[1], 0, 0>>

\* CpioHeader::size: (rdev << 32) | decode_u32(filesize)
size_limbs(h) == <<h.filesize[2], h.filesize[1], h.rdev, 0>>

\* The limbs of a number the checker can hold.
limbs_of(n) == <<n % 65536, (n \div 65536) % 65536, 0, 0>>

NoFields == [rdev |-> 0, filesize |-> <<0, 0>>]

SizeIdle == sized = [s |-> <<0, 0, 0, 0>>, n |-> 0, phase |-> "new", fields |-> NoFields,
                     decoded |-> <<0, 0, 0, 0>>]

SizeInit ==
    \E s \in Limbs, n \in Words :
        sized = [s |-> s, n |-> n, phase |-> "new", fields |-> NoFields,
                 decoded |-> <<0, 0, 0, 0>>]

\* from_info writes the size of the file into the header.
WriteSize ==
    /\ sized.phase = "new"
    /\ sized' = [sized EXCEPT !.phase = "written", !.fields = size_fields(sized.s)]
    /\ UNCHANGED notSize

\* size() of the header read back.
ReadSize ==
    /\ sized.phase = "written"
    /\ sized' = [sized EXCEPT !.phase = "read", !.decoded = size_limbs(sized.fields)]
    /\ UNCHANGED notSize

SizeNext == WriteSize \/ ReadSize

\* ================================================= reading any stream
\* Largest number of files in the archive whose stream is damaged and read.
MaxReadFiles == 1

\* The queued files whose content on disk has the expected size.
ReadArchives ==
    {a \in ArchivesFrom(1, MaxReadFiles) :
        \A i \in 1..Len(a) : a[i].info.data.size = Len(DiskContent(a[i].info.path))}

\* What the writer streams for one queued file: header and padded name, the
\* content, one NUL after an odd content.
entry_bytes(file) ==
    encode(file.info) \o DiskContent(file.info.path)
    \o (IF Len(DiskContent(file.info.path)) % 2 # 0 THEN <<0>> ELSE <<>>)

\* The whole stream of an archive: the entries, the trailer, the manifest.
written(files) ==
    Concat([i \in 1..Len(files) |-> entry_bytes(files[i])]) \o archive_trailer(files)

\* Offset of the header of entry i; entry Len(files) + 1 is the trailer.
header_offset(files, i) == Len(Concat([k \in 1..(i - 1) |-> entry_bytes(files[k])]))

\* Length of the name field of the entry at offset o of stream w.
name_size(w, o) == u16from(w, o + 21)

\* Offset behind the trailer entry: its header, name and name padding.
trailer_end(files) ==
    header_offset(files, Len(files) + 1) + HeaderSize + TRAILER_LEN + 1

\* The streams handed to the Reader: the stream of the archive cut at any
\* length, or with one byte replaced: a byte of the magic of an entry, the
\* NUL that ends a name, or the low byte of a name size (set to zero).
ReadInputs(files) ==
    With(written(files), LAMBDA w :
        {Take(w, n) : n \in 0..Len(w)}
        \cup UNION {
            {[w EXCEPT ![header_offset(files, i) + 1] = 0],
             [w EXCEPT ![header_offset(files, i) + 2] = 0],
             [w EXCEPT ![header_offset(files, i) + HeaderSize
                         + name_size(w, header_offset(files, i))] = 1],
             [w EXCEPT ![header_offset(files, i) + 21] = 0]}
            : i \in 1..(Len(files) + 1)})

\* A Reader over one of the streams, all of it at hand.
ReadInit ==
    /\ archive \in ReadArchives
    /\ out \in ReadInputs(archive)
    /\ eos = TRUE
    /\ state = NewState
    /\ smart = [buffer |-> <<>>, start |-> 0]
    /\ bufreader = NewBufReader
    /\ env = NewEnv
    /\ ret = [res |-> "none", empty |-> TRUE, err |-> NoErr]
    /\ emitted = [i \in 1..Len(archive) |-> <<>>]
    /\ extract = NewExtract

ReadNext ==
    \/ ReaderAdvance
    \/ ReaderDrainTo

\* ================================================ attached databases
\* The connection of one Database value: the schema names attached to it,
\* the live Snapshot values borrowed shared (ro) and exclusively (rw), the
\* live Diff values, the snapshot databases on disk that hold a snap table,
\* and the result of the last call.
NewConn(files) ==
    [attached |-> {}, ro |-> {}, rw |-> {}, diffs |-> {}, files |-> files, ret |-> "none"]

\* The SqlName of a snapshot and of the diff of two snapshots
\* (format!("diff_{}_vs_{}", before, after)).
snap_name(n) == <<n>>

diff_name(before, after) == <<"diff", before, "vs", after>>

\* ATTACH DATABASE '<root>/<name>.db' AS <name>: fails when the schema name
\* is in use on the connection; the file is created when it is missing.
attach(c, name) ==
    IF name \in c.attached THEN [ok |-> FALSE, c |-> c]
    ELSE [ok |-> TRUE, c |-> [c EXCEPT !.attached = @ \cup {name}]]

\* Snapshot::detach and the drop of a Diff: DETACH DATABASE, its result unused.
detach(c, name) == [c EXCEPT !.attached = @ \ {name}]

\* No handle borrows the Database: what a call through &mut self needs.
Unborrowed == conn.ro = {} /\ conn.rw = {} /\ conn.diffs = {}

\* Database::open_snapshot: attach, create the snapshot unless it exists.
AttachOpenSnapshot(name) ==
    /\ Unborrowed
    /\ \E a \in {attach(conn, snap_name(name))} :
          conn' = IF ~a.ok THEN [conn EXCEPT !.ret = "SqliteFailed"]
                  ELSE [a.c EXCEPT !.files = @ \cup {name}, !.rw = {name}, !.ret = "ok"]
    /\ UNCHANGED notAttach

\* Database::readonly_snapshot: attach, then NoSnapshotExists unless the
\* database holds a snap table.
AttachReadonlySnapshot(name) ==
    /\ conn.rw = {}
    /\ \E a \in {attach(conn, snap_name(name))} :
          conn' = IF ~a.ok THEN [conn EXCEPT !.ret = "SqliteFailed"]
                  ELSE IF name \in conn.files
                  THEN [a.c EXCEPT !.ro = @ \cup {name}, !.ret = "ok"]
                  ELSE [a.c EXCEPT !.ret = "NoSnapshotExists"]
    /\ UNCHANGED notAttach

\* Database::empty_snapshot
AttachEmptySnapshot ==
    /\ conn.rw = {}
    /\ \E a \in {attach(conn, snap_name("empty_snap"))} :
          conn' = IF ~a.ok THEN [conn EXCEPT !.ret = "SqliteFailed"]
                  ELSE [a.c EXCEPT !.files = @ \cup {"empty_snap"},
                                   !.ro = @ \cup {"empty_snap"}, !.ret = "ok"]
    /\ UNCHANGED notAttach

\* Database::compare_snapshots of two live snapshots of this Database:
\* Diff::new attaches the diff, creates its table and fills it; a Diff whose
\* fill fails is dropped, which detaches it.
AttachCompareSnapshots(before, after, filled) ==
    /\ conn.rw = {}
    /\ before \in conn.ro /\ after \in conn.ro
    /\ \E a \in {attach(conn, diff_name(before, after))} :
          conn' = IF ~a.ok THEN [conn EXCEPT !.ret = "SqliteFailed"]
                  ELSE IF filled
                  THEN [a.c EXCEPT !.diffs = @ \cup {diff_name(before, after)},
                                   !.ret = "ok"]
                  ELSE [detach(a.c, diff_name(before, after)) EXCEPT !.ret = "SqliteFailed"]
    /\ UNCHANGED notAttach

\* The snapshots a live Diff borrows the names of.
BorrowedByDiff == {d[2] : d \in conn.diffs} \cup {d[4] : d \in conn.diffs}

\* Snapshot::into_name
AttachIntoName(name) ==
    /\ name \in (conn.ro \cup conn.rw) \ BorrowedByDiff
    /\ conn' = [detach(conn, snap_name(name)) EXCEPT !.ro = @ \ {name}, !.rw = @ \ {name},
                                                      !.ret = "name"]
    /\ UNCHANGED notAttach

\* A Snapshot value is dropped.
AttachDropSnapshot(name) ==
    /\ name \in (conn.ro \cup conn.rw) \ BorrowedByDiff
    /\ conn' = [detach(conn, snap_name(name)) EXCEPT !.ro = @ \ {name}, !.rw = @ \ {name},
                                                      !.ret = "dropped"]
    /\ UNCHANGED notAttach

\* A Diff value is dropped.
AttachDropDiff(d) ==
    /\ d \in conn.diffs
    /\ conn' = [detach(conn, d) EXCEPT !.diffs = @ \ {d}, !.ret = "dropped"]
    /\ UNCHANGED notAttach

AttachIdle == conn = NewConn({})

\* A store directory with any of the snapshots on disk.
AttachInit == conn \in {NewConn(files) : files \in SUBSET StoreNames}

AttachNext ==
    \/ \E name \in StoreNames : AttachOpenSnapshot(name)
    \/ \E name \in StoreNames : AttachReadonlySnapshot(name)
    \/ AttachEmptySnapshot
    \/ \E before \in StoreNames, after \in StoreNames, filled \in BOOLEAN :
          AttachCompareSnapshots(before, after, filled)
    \/ \E name \in StoreNames : AttachIntoName(name)
    \/ \E name \in StoreNames : AttachDropSnapshot(name)
    \/ \E d \in conn.diffs : AttachDropDiff(d)

\* ============================================ draining or skipping entries
\* Largest number of files in the archive whose entries are drained or skipped.
MaxSkipFiles == 2

\* A Reader over the stream of an archive, whole or cut at any length.
SkipInit ==
    /\ archive \in {a \in ArchivesFrom(1, MaxSkipFiles) :
                      \A i \in 1..Len(a) :
                          a[i].info.data.size = Len(DiskContent(a[i].info.path))}
    /\ out \in With(written(archive), LAMBDA w : {Take(w, n) : n \in 0..Len(w)})
    /\ eos = TRUE
    /\ state = NewState
    /\ smart = [buffer |-> <<>>, start |-> 0]
    /\ bufreader = NewBufReader
    /\ env = NewEnv
    /\ ret = [res |-> "none", empty |-> TRUE, err |-> NoErr]
    /\ emitted = [i \in 1..Len(archive) |-> <<>>]
    /\ extract = NewExtract

SkipNext ==
    \/ ReaderAdvance
    \/ ReaderDrainTo
    \/ ReaderSkip

\* =========================================== entries that look like the end
\* Largest number of entries in such an archive.
MaxTrailerFiles == 2

\* The queued entries: named like the trailer or not, of every kind, with a
\* mode of zero, of permission bits, of type bits alone and of a bit above
\* the sixteen the header keeps; all of them without content.
TrailerPaths == {Take(TRAILER, TRAILER_LEN - 1), <<97>>}

TrailerModes == {0, 420, 61440, 65536, 33188}

TrailerInfos ==
    {[FileInfoOf(p, 0, None) EXCEPT !.mode = m, !.data = [tag |-> k, size |-> 0]] :
        p \in TrailerPaths, m \in TrailerModes, k \in {"File", "Dir", "Unknown"}}

RECURSIVE TrailerArchives(_)
TrailerArchives(n) ==
    IF n = 0 THEN {<<>>}
    ELSE TrailerArchives(n - 1)
         \cup {Append(a, NewPending(info)) :
                 a \in {b \in TrailerArchives(n - 1) : Len(b) = n - 1},
                 info \in TrailerInfos}

\* A Reader over the whole stream of such an archive.
TrailerInit ==
    /\ archive \in TrailerArchives(MaxTrailerFiles)
    /\ out = written(archive)
    /\ eos = TRUE
    /\ state = NewState
    /\ smart = [buffer |-> <<>>, start |-> 0]
    /\ bufreader = NewBufReader
    /\ env = NewEnv
    /\ ret = [res |-> "none", empty |-> TRUE, err |-> NoErr]
    /\ emitted = [i \in 1..Len(archive) |-> <<>>]
    /\ extract = NewExtract

\* ------------------------------------------------------- specifications
vars == <<cpioVars, diffVars, packVars, storeVars, idVars, hashVars, cloudVars, awsVars, sizeVars, attachVars>>

Init == CpioInit /\ DiffIdle /\ PackIdle /\ StoreIdle /\ IdIdle /\ HashIdle /\ CloudIdle /\ AwsIdle /\ SizeIdle /\ AttachIdle
Next == CpioNext
Spec == Init /\ [][Next]_vars

InitDiff == DiffInit /\ PackIdle /\ StoreIdle /\ IdIdle /\ HashIdle /\ CloudIdle /\ AwsIdle /\ SizeIdle /\ AttachIdle
SpecDiff == InitDiff /\ [][DiffNext]_vars

InitPack == CpioIdle /\ DiffIdle /\ PackInit /\ StoreIdle /\ IdIdle /\ HashIdle /\ CloudIdle /\ AwsIdle /\ SizeIdle /\ AttachIdle
SpecPack == InitPack /\ [][PackNext]_vars

InitStore == CpioIdle /\ DiffIdle /\ PackIdle /\ StoreIdle /\ IdIdle /\ HashIdle /\ CloudIdle /\ AwsIdle /\ SizeIdle /\ AttachIdle
SpecStore == InitStore /\ [][StoreNext]_vars

SpecId == InitStore /\ [][IdNext]_vars

InitHash == CpioIdle /\ DiffIdle /\ PackIdle /\ StoreIdle /\ IdIdle /\ HashInit /\ CloudIdle /\ AwsIdle /\ SizeIdle /\ AttachIdle
SpecHash == InitHash /\ [][HashNext]_vars

InitSink == CpioIdle /\ DiffIdle /\ PackIdle /\ StoreIdle /\ IdIdle /\ SinkInit /\ CloudIdle /\ AwsIdle /\ SizeIdle /\ AttachIdle
SpecSink == InitSink /\ [][SinkNext]_vars

SpecCloud == InitStore /\ [][CloudNext]_vars

InitUpload == UploadInit /\ DiffIdle /\ PackIdle /\ StoreIdle /\ IdIdle /\ HashIdle /\ CloudIdle /\ AwsIdle /\ SizeIdle /\ AttachIdle
SpecUpload == InitUpload /\ [][UploadNext]_vars

InitLock == LockInit /\ DiffIdle /\ PackIdle /\ StoreIdle /\ IdIdle /\ HashIdle /\ CloudIdle /\ AwsIdle /\ SizeIdle /\ AttachIdle
SpecLock == InitLock /\ [][LockNext]_vars

InitAws == CpioIdle /\ DiffIdle /\ PackIdle /\ StoreIdle /\ IdIdle /\ HashIdle /\ CloudIdle /\ AwsInit /\ SizeIdle /\ AttachIdle
\* Every request is answered at some time and the task that awaits is polled.
SpecAws == InitAws /\ [][AwsNext]_vars /\ WF_vars(AwsNext)

InitSize == CpioIdle /\ DiffIdle /\ PackIdle /\ StoreIdle /\ IdIdle /\ HashIdle /\ CloudIdle /\ AwsIdle /\ SizeInit /\ AttachIdle
SpecSize == InitSize /\ [][SizeNext]_vars

\* A read from the stream would change something: ENABLED <<Read(cap)>>_vars
\* for some capacity, written out.
ReadChanges ==
    /\ extract.phase = "entry" /\ extract.pos = 0
    /\ \E cap \in 1..MaxCap :
         \E r \in {bufreader_poll_read(bufreader, smart,
                                      [files |-> archive, st |-> state, e |-> env,
                                       em |-> emitted],
                                      cap)} :
            \/ r.sys.files # archive \/ r.sys.st # state \/ r.sys.e # env
            \/ r.sys.em # emitted \/ r.sr # smart \/ r.br # bufreader
            \/ (r.res = "ok" /\ r.bytes # <<>>)
            \/ ret # [res |-> r.res, empty |-> (r.bytes = <<>>), err |-> r.err]
            \/ ~eos /\ r.res = "ok" /\ r.bytes = <<>>

\* Weak fairness of the three steps: the caller polls again and again (as
\* long as a read changes anything), every opening future completes and the
\* disk hands over the bytes of a file that is being read.
ProgressFair ==
    /\ \/ []<>(~ReadChanges)
       \/ []<><<\E cap \in 1..MaxCap : Read(cap)>>_vars
    /\ WF_vars(OpenSucceeds)
    /\ WF_vars(\E k \in 1..MaxChunk : DiskReady(k))

SpecProgress == Init /\ [][ProgressNext]_vars /\ ProgressFair

InitRead == ReadInit /\ DiffIdle /\ PackIdle /\ StoreIdle /\ IdIdle /\ HashIdle /\ CloudIdle /\ AwsIdle /\ SizeIdle /\ AttachIdle
SpecRead == InitRead /\ [][ReadNext]_vars

InitSkip == SkipInit /\ DiffIdle /\ PackIdle /\ StoreIdle /\ IdIdle /\ HashIdle /\ CloudIdle /\ AwsIdle /\ SizeIdle /\ AttachIdle
SpecSkip == InitSkip /\ [][SkipNext]_vars

InitTrailer == TrailerInit /\ DiffIdle /\ PackIdle /\ StoreIdle /\ IdIdle /\ HashIdle /\ CloudIdle /\ AwsIdle /\ SizeIdle /\ AttachIdle
SpecTrailer == InitTrailer /\ [][SkipNext]_vars

InitAttach == CpioIdle /\ DiffIdle /\ PackIdle /\ StoreIdle /\ IdIdle /\ HashIdle /\ CloudIdle /\ AwsIdle /\ SizeIdle /\ AttachInit
SpecAttach == InitAttach /\ [][AttachNext]_vars

\* ================================================================ claims
IsPrefix(a, b) == Len(a) <= Len(b) /\ a = Take(b, Len(a))

\* The entry of queued file i as the format lays it out: header and padded
\* name, the content on disk, one NUL after an odd content.
EntryBytes(i) ==
    LET content == DiskContent(archive[i].info.path)
    IN encode(archive[i].info) \o content
       \o (IF Len(content) % 2 # 0 THEN <<0>> ELSE <<>>)

BodyBytes == Concat([i \in 1..Len(archive) |-> EntryBytes(i)])
FullStream == BodyBytes \o archive_trailer(archive)

\* Bytes handed out by the machine that the caller has not received yet.
InFlight == Drop(bufreader.buf, bufreader.pos) \o Drop(smart.buffer, smart.start)

SizesMatch ==
    \A i \in 1..Len(archive) :
        archive[i].info.data.size = Len(DiskContent(archive[i].info.path))

\* The number of queued files whose content the writer has finished.
FilesDone == IF state.tag = "Poisoned" THEN 0 ELSE state.position

\* C1: reading back a finished archive of regular files whose recorded sizes
\* match the disk yields the queued files in queue order with their path,
\* size and content, and End only after all of them.
C1_RoundTrip ==
    (eos /\ SizesMatch) =>
        /\ extract.phase # "failed"
        /\ Len(extract.items) <= Len(archive)
        /\ \A i \in 1..Len(extract.items) :
              /\ extract.items[i].info.path = archive[i].info.path
              /\ extract.items[i].info.data = archive[i].info.data
              /\ extract.items[i].content = DiskContent(archive[i].info.path)
        /\ (extract.phase = "end" => Len(extract.items) = Len(archive))
        /\ (extract.phase = "file" => Len(extract.items) < Len(archive))

C1_Witness ==
    /\ extract.phase = "end" /\ SizesMatch
    /\ Len(extract.items) = 2
    /\ Len(extract.items[1].content) = 1
    /\ Len(extract.items[2].content) >= SmallLimit

\* C2: whatever the buffer capacities of the reads, the bytes received are a
\* prefix of the one stream (entries in queue order, then trailer and
\* manifest), the bytes still buffered continue it without a gap, and at the
\* end of the stream everything has been received.
C2_StreamBytes ==
    /\ IsPrefix(out \o InFlight, FullStream)
    /\ (state.tag \notin {"Eof", "Poisoned"} => Len(out \o InFlight) <= Len(BodyBytes))
    /\ (state.tag = "Eof" => out \o InFlight = FullStream)
    /\ (eos => out = FullStream)

C2_Witness ==
    /\ state.tag = "Eof" /\ Len(archive) = 2
    /\ Drop(smart.buffer, smart.start) # <<>>
    /\ Drop(bufreader.buf, bufreader.pos) # <<>>
    /\ Len(out) > Len(BodyBytes)

\* C3: a queued file whose bytes on disk differ from the expected size or
\* hash makes the stream fail no later than the end of that file's content;
\* the writer never gets past such a file.
Mismatched(i) ==
    LET content == DiskContent(archive[i].info.path)
    IN \/ archive[i].info.data.size # Len(content)
       \/ /\ IsSome(archive[i].info.hash)
          /\ archive[i].info.hash[1] # Sha256(content)

C3_MismatchFails ==
    /\ \A i \in 1..Len(archive) : Mismatched(i) => FilesDone < i
    /\ (eos => \A i \in 1..Len(archive) : ~Mismatched(i))

\* C4: when the writer has left the File state of a queued file at its end,
\* calculated holds the SHA-256 of the content bytes emitted for that file.
C4_CalculatedDigest ==
    \A i \in 1..Len(archive) :
        i <= FilesDone => archive[i].calculated = Some(Sha256(emitted[i]))

\* C5: the manifest the reader returns with End has one record per queued
\* file, in queue order, equal to the queued record with its hash replaced
\* by the digest of the bytes streamed for the file.
C5_Manifest ==
    extract.phase = "end" =>
        extract.files =
            Some([i \in 1..Len(archive) |->
                    [archive[i].info EXCEPT !.hash = Some(Sha256(emitted[i]))]])

\* C6: once a read has signalled the end of the stream, every later read
\* returns zero bytes as well and the machine stays in Eof; the end is
\* signalled only when the whole stream, trailer and manifest included, has
\* been received.
C6_EofSticky ==
    /\ [](eos => /\ state.tag = "Eof"
                 /\ InFlight = <<>>
                 /\ out = FullStream)
    /\ [][eos => /\ eos'
                 /\ out' = out
                 /\ state'.tag = "Eof"
                 /\ ret'.res = "ok" /\ ret'.empty]_vars

C6_Witness ==
    /\ eos /\ Len(archive) = 2
    /\ ret.res = "ok" /\ ret.empty
    /\ out = FullStream

\* ------------------------------------------------------ diff claims
Compared == diff.res # "none"
BeforeRows == snapshots[diff.before].rows
AfterRows == snapshots[diff.after].rows

\* Diff rows of one kind that name row id x of the before (after) snapshot.
RowsBefore(kind, x) ==
    {k \in 1..Len(diff.rows) : diff.rows[k].type = kind /\ diff.rows[k].before = Some(x)}
RowsAfter(kind, x) ==
    {k \in 1..Len(diff.rows) : diff.rows[k].type = kind /\ diff.rows[k].after = Some(x)}
RowsOfKind(kind) == {k \in 1..Len(diff.rows) : diff.rows[k].type = kind}

\* Diff rows that refer to a snapshot row carrying identifier x.
RowsOfIdentifier(x) ==
    {k \in 1..Len(diff.rows) :
        \/ \E i \in 1..Len(BeforeRows) :
              BeforeRows[i].identifier = x /\ diff.rows[k].before = Some(BeforeRows[i].id)
        \/ \E j \in 1..Len(AfterRows) :
              AfterRows[j].identifier = x /\ diff.rows[k].after = Some(AfterRows[j].id)}

Identifiers(rows) == {rows[i].identifier : i \in 1..Len(rows)}

\* Apart from row i of the before and row j of the after snapshot the two
\* snapshots hold the same entries.
NothingElseChanges(i, j) ==
    {BeforeRows[k].info : k \in (1..Len(BeforeRows)) \ {i}}
        = {AfterRows[k].info : k \in (1..Len(AfterRows)) \ {j}}

SameButFor(x, y, fields) ==
    \A f \in {"path", "inode", "mode", "user_id", "group_id", "created_at",
              "modified_at", "hash"} \ fields : x[f] = y[f]

\* Row j of the after snapshot is the file of row i of the before snapshot
\* with its content modified: another modification time, possibly another
\* size.
ModifiedFile(i, j) ==
    LET x == from_str(BeforeRows[i].info)
        y == from_str(AfterRows[j].info)
    IN /\ x.data.tag = "File" /\ y.data.tag = "File"
       /\ SameButFor(x, y, {"modified_at"})
       /\ x.modified_at # y.modified_at
       /\ NothingElseChanges(i, j)

\* Row j of the after snapshot is the file of row i of the before snapshot
\* under another path.
RenamedFile(i, j) ==
    LET x == from_str(BeforeRows[i].info)
        y == from_str(AfterRows[j].info)
    IN /\ x.data = y.data /\ x.data.tag = "File"
       /\ SameButFor(x, y, {"path"})
       /\ x.path # y.path
       /\ NothingElseChanges(i, j)

\* C7 (as stated): after a comparison every identifier found in only one of
\* the two snapshots has exactly one diff row, Deleted or Created; every
\* identifier found in both with differing info has exactly one row, a
\* Changed one; and no identifier has any other row.
C7_DiffComplete ==
    Compared =>
        \A x \in Identifiers(BeforeRows) \cup Identifiers(AfterRows) :
            LET inA == x \in Identifiers(BeforeRows)
                inB == x \in Identifiers(AfterRows)
                differs == \E i \in 1..Len(BeforeRows), j \in 1..Len(AfterRows) :
                              /\ BeforeRows[i].identifier = x
                              /\ AfterRows[j].identifier = x
                              /\ BeforeRows[i].info # AfterRows[j].info
                kinds == {diff.rows[k].type : k \in RowsOfIdentifier(x)}
                n == Cardinality(RowsOfIdentifier(x))
            IN /\ (inA /\ ~inB) => (n = 1 /\ kinds = {Deleted})
               /\ (inB /\ ~inA) => (n = 1 /\ kinds = {Created})
               /\ (inA /\ inB /\ differs) => (n = 1 /\ kinds = {Changed})
               /\ (inA /\ inB /\ ~differs) => n = 0

\* C8 (as stated): when exactly one file is modified between two snapshots,
\* the diff holds exactly one row for the file, a Changed one, and no
\* Deleted or Created row.
C8_ModifyOneChanged ==
    Compared =>
        \A i \in 1..Len(BeforeRows), j \in 1..Len(AfterRows) :
            ModifiedFile(i, j) =>
                /\ Cardinality(RowsBefore(Changed, BeforeRows[i].id)
                               \cap RowsAfter(Changed, AfterRows[j].id)) = 1
                /\ RowsOfKind(Deleted) = {}
                /\ RowsOfKind(Created) = {}

\* C8 (amended): when exactly one file is modified between two snapshots, the
\* diff table holds exactly one Deleted row for the file's old row and
\* exactly one Created row for its new row, and no Changed row for either.
C8_ModifyOneDeletedCreated ==
    Compared =>
        \A i \in 1..Len(BeforeRows), j \in 1..Len(AfterRows) :
            ModifiedFile(i, j) =>
                /\ Cardinality(RowsBefore(Deleted, BeforeRows[i].id)) = 1
                /\ Cardinality(RowsAfter(Created, AfterRows[j].id)) = 1
                /\ RowsBefore(Changed, BeforeRows[i].id) = {}
                /\ RowsAfter(Changed, AfterRows[j].id) = {}

C8_Witness ==
    /\ Compared /\ diff.res = "ok"
    /\ Len(BeforeRows) = 3
    /\ \E i \in 1..Len(BeforeRows), j \in 1..Len(AfterRows) : ModifiedFile(i, j)

C10_SelfDiffEmpty ==
    (/\ Compared
     /\ [k \in 1..Len(BeforeRows) |-> BeforeRows[k].info]
           = [k \in 1..Len(AfterRows) |-> AfterRows[k].info]) =>
        /\ diff.res = "ok"
        /\ \A kind \in {Deleted, Created, Changed} :
              count(diff.rows, only_kind(query, kind)) = 0

\* ---------------------------------------------------------- packer claims
\* The row ids of the given kinds in the diff pack was called with.
PackRowIds(kinds) == {i \in 1..Len(packer.rows) : packer.rows[i].type \in kinds}

\* How often a row id occurs in the packs built so far.
Occurrences(rowid) ==
    Cardinality({pj \in (1..Len(packer.result)) \X (1..MaxPackRows + 1) :
                    /\ pj[2] <= Len(packer.result[pj[1]])
                    /\ packer.result[pj[1]][pj[2]] = rowid})

RECURSIVE PackSize(_)
PackSize(pack) ==
    IF pack = <<>> THEN 0
    ELSE packer.rows[Head(pack)].size[1] + PackSize(Tail(pack))

\* A pack that holds a row of at least min_size.
HasLargeRow(pack) ==
    \E j \in 1..Len(pack) : packer.rows[pack[j]].size[1] >= packer.min_size

\* C11: pack returns, for every diff and every threshold (zero included), a
\* list of packs in which every Created or Changed row is in exactly one
\* pack, no Deleted row is in any, and no pack is empty.
C11_PackCoverage ==
    /\ packer.phase # "panicked"
    /\ packer.phase = "done" =>
          /\ \A i \in PackRowIds({Created, Changed}) : Occurrences(i) = 1
          /\ \A i \in PackRowIds({Deleted}) : Occurrences(i) = 0
          /\ \A p \in 1..Len(packer.result) : packer.result[p] # <<>>

\* C12: every pack built by the grouping loop from rows below the threshold
\* has a total size of at least the threshold.
C12_GroupedAtLeastMin ==
    \A p \in 1..Len(packer.result) :
        p <= packer.size_of_pack - 2 => PackSize(packer.result[p]) >= packer.min_size

\* C13: the i-th grouping step emits the largest remaining small file L by
\* (size, rowid) and the min(i, n) smallest of the n files remaining in the
\* directories related to L.
C13_GroupSmallest ==
    [][(packer.phase = "grouping" /\ packer.files # {} /\ packer' # packer) =>
        LET ordered == btree_iter(packer.files)
            largest == ordered[Len(ordered)]
            dirs == find_related_directories(packer.dirs, directory(largest.path))
            related == {f \in packer.files \ {largest} :
                           \E d \in 1..Len(dirs) : dirs[d] = directory(f.path)}
            k == Min(packer.size_of_pack - 1, Cardinality(related))
            pack == packer'.result[Len(packer'.result)]
            chosen == {f \in related : \E j \in 1..(Len(pack) - 1) : pack[j] = f.rowid}
        IN /\ Len(pack) = k + 1
           /\ pack[Len(pack)] = largest.rowid
           /\ Cardinality(chosen) = k
           /\ \A f \in related \ chosen : \A g \in chosen : g.size <= f.size]_vars

\* C14: a pack that holds a row of at least the threshold holds only that
\* row, and these packs come after every pack of smaller rows.
C14_LargeAlone ==
    packer.phase = "done" =>
        /\ \A p \in 1..Len(packer.result) :
              HasLargeRow(packer.result[p]) => Len(packer.result[p]) = 1
        /\ \A p, q \in 1..Len(packer.result) :
              (HasLargeRow(packer.result[p]) /\ ~HasLargeRow(packer.result[q])) => q < p

\* ----------------------------------------------------------- store claims
\* The row ids committed to the k-th snapshot of the store.
RowIdsOf(k) == {store.snaps[k].rows[i].id : i \in 1..Len(store.snaps[k].rows)}

\* C15: after any sequence of Database::open, open_snapshot, empty_snapshot
\* and fills on one store, closing and reopening included, no row id occurs
\* in two different snapshots.
C15_RowIdsUnique ==
    \A i, j \in 1..Len(store.snaps) : i # j => RowIdsOf(i) \cap RowIdsOf(j) = {}

\* generate_id as the module that made the last call defines it.
GenerateIdOf(of, table_id, row_id) ==
    IF of = "backup" THEN backup_generate_id(table_id, row_id)
    ELSE generate_id(table_id, row_id)

\* C16: generate_id(s, r) is (s << RowBits) | r, fits in TableBits + RowBits
\* bits and is injective over s < 2^TableBits and r < 2^RowBits; it returns
\* TooManySnapshots for s >= 2^TableBits and TooManyRows for r >= 2^RowBits
\* (the widths are 23 and 40 in the program).
C16_GenerateId ==
    gen.of # "none" =>
        IF gen.table_id >= 2 ^ TableBits
        THEN ~gen.res.ok /\ gen.res.err = "TooManySnapshots"
        ELSE IF gen.row_id >= 2 ^ RowBits
        THEN ~gen.res.ok /\ gen.res.err = "TooManyRows"
        ELSE /\ gen.res.ok
             /\ gen.res.id = gen.table_id * (2 ^ RowBits) + gen.row_id
             /\ gen.res.id < 2 ^ (TableBits + RowBits)
             /\ \A s \in 0..(2 ^ TableBits - 1), r \in 0..(2 ^ RowBits - 1) :
                   GenerateIdOf(gen.of, s, r).id = gen.res.id
                       => (s = gen.table_id /\ r = gen.row_id)

\* C17: a filler that is dropped without save leaves every snapshot and
\* filled_at as they were, rows added through an open filler are not in the
\* snapshot, and a save adds all its rows and writes filled_at in one step.
C17_FillAtomic ==
    [][/\ (filler.state = "open" /\ filler'.state \in {"open", "dropped"})
            => store' = store
       /\ (filler.state = "open" /\ filler'.state = "saved") =>
            LET k == snapshot_of(store, filler.snap)
            IN /\ Len(store'.snaps) = Len(store.snaps)
               /\ store'.snaps[k].rows = store.snaps[k].rows \o filler.rows
               /\ store'.snaps[k].filled_at # store.snaps[k].filled_at
               /\ \A i \in 1..Len(store.snaps) : i # k => store'.snaps[i] = store.snaps[i]
      ]_vars

\* A filler that had added a row was dropped, and later one was saved with
\* a row.
C17_Witness ==
    /\ filler.state = "dropped" /\ filler.rows # <<>>
    /\ \E k \in 1..Len(store.snaps) :
          store.snaps[k].rows # <<>> /\ store.snaps[k].filled_at # 0

\* The rows a fill of the pair (b, a) inserts when all three statements run.
CompleteFills(b, a) ==
    {fill(<<>>, snapshots[b], snapshots[a], TRUE, side).rows : side \in {"before", "after"}}

\* C18: the truncation and the three inserts take effect atomically: after
\* a fill that failed, the diff table holds its complete previous contents
\* or a complete new fill, never a part of one.
C18_FillAtomic ==
    [][((tables' # tables \/ diff' # diff) /\ diff'.res = "SqliteFailed")
         => \E p \in {<<diff'.before, diff'.after>>} :
               \/ tables'[p] = tables[p]
               \/ tables'[p] \in CompleteFills(p[1], p[2])]_vars

\* No row of the sequence occurs twice.
NoRowTwice(rows) == \A i, j \in 1..Len(rows) : i # j => rows[i] # rows[j]

\* C19: filling is idempotent: whatever the diff database of the two
\* snapshots held before, after the fill the table holds the rows of one
\* fill of an empty table, in the same order and none of them twice.
C19_FillIdempotent ==
    Compared =>
        /\ diff.rows = fill(<<>>, snapshots[diff.before], snapshots[diff.after],
                            sqlite.accepted, sqlite.side).rows
        /\ tables[<<diff.before, diff.after>>] = diff.rows
        /\ NoRowTwice(diff.rows)

\* A pair of different snapshots was compared again: the fill found the
\* rows of the earlier fill in the table, took them out and inserted rows
\* of all three kinds' statements.
C19_Witness ==
    /\ Compared
    /\ diff.before # diff.after
    /\ diff.res = "ok"
    /\ diff.removed > 0
    /\ Len(diff.rows) > 1

\* The bytes the inner source has delivered so far.
Delivered == SubSeq(stream_hash.inner.data, 1, stream_hash.inner.pos)

\* C20: read side of StreamHash: after any sequence of reads, the digest
\* finalize returns is the SHA-256 of exactly the bytes the inner source
\* delivered, and the caller has seen exactly those bytes.
C20_ReadDigest ==
    /\ stream_hash.taken \o stream_hash.buf = Delivered
    /\ stream_hash.output # None => stream_hash.output = Some(Sha256(Delivered))

\* C21: write side of StreamHash: after any sequence of writes, partial,
\* pending or failed, the digest covers exactly the bytes the sink took, in
\* order, and done returns the SHA-256 of the bytes in the sink.
C21_WriteDigest ==
    /\ sink_hash.digest = Sha256(sink_hash.inner)
    /\ sink_hash.output # None => sink_hash.output = Some(Sha256(sink_hash.inner))

\* done after the sink took two bytes or more and answered the last write,
\* of more than one byte, by taking only a part of it.
C21_Witness ==
    /\ sink_hash.output # None
    /\ Len(sink_hash.inner) >= 2
    /\ sink_hash.last.res = "Ready"
    /\ 0 < sink_hash.last.accepted
    /\ sink_hash.last.accepted < sink_hash.last.offered

\* Every contents row names the id of a row of archives.
ReferencesHold(tbl) ==
    \A i \in 1..Len(tbl.contents) :
        \E j \in 1..Len(tbl.archives) : tbl.archives[j].id = tbl.contents[i].archive

C23_UploadRecorded ==
    (cloud.call.of = "upload" /\ cloud.call.res = "Ok") =>
        \E a \in 1..Len(cloud.db.archives) :
            /\ cloud.db.archives[a].key = cloud.call.key
            /\ \A i \in 1..Len(archive) :
                  \E c \in 1..Len(cloud.db.contents) :
                      /\ cloud.db.contents[c].archive = cloud.db.archives[a].id
                      /\ cloud.db.contents[c].hash = Some(to_string(Sha256(emitted[i])))

\* ------------------------------------------------- damaged stream claims
\* The stream read differs from the stream of the archive in exactly the
\* byte at position p.
DiffersAt(p) ==
    /\ Len(out) = Len(written(archive))
    /\ p \in 1..Len(out)
    /\ \A q \in 1..Len(out) : (out[q] # written(archive)[q]) <=> q = p

HeaderOffsets == {header_offset(archive, i) : i \in 1..(Len(archive) + 1)}

\* The stream ends before the trailer entry is complete.
CutShort ==
    /\ Len(out) < trailer_end(archive)
    /\ out = Take(written(archive), Len(out))

BadMagic == \E o \in HeaderOffsets : DiffersAt(o + 1) \/ DiffersAt(o + 2)

BadName ==
    \E o \in HeaderOffsets :
        \/ DiffersAt(o + HeaderSize + name_size(written(archive), o))
        \/ DiffersAt(o + 21)

\* C24: reading a stream that is not a complete archive never yields End:
\* a wrong magic ends in InvalidHeader, a name without its final NUL or of
\* size zero in InvalidName, a stream that ends before the trailer entry is
\* complete in an I/O error.
C24_IncompleteStream ==
    /\ (CutShort \/ BadMagic \/ BadName) => extract.phase # "end"
    /\ (CutShort /\ extract.phase = "failed") => extract.err = "IoFailed"
    /\ (BadMagic /\ extract.phase = "failed") => extract.err = "InvalidHeader"
    /\ (BadName /\ extract.phase = "failed") => extract.err = "InvalidName"

\* A stream cut inside the content of its file: the file was drained and
\* the next advance failed.
C24_Witness ==
    /\ CutShort
    /\ Len(extract.items) = 1
    /\ Len(extract.items[1].content) < extract.items[1].info.data.size
    /\ extract.phase = "failed"
    /\ extract.err = "IoFailed"

\* The stream read has every entry and the trailer entry of the archive;
\* only the bytes behind the trailer entry may differ.
TrailerIntact ==
    /\ Len(out) >= trailer_end(archive)
    /\ Take(out, trailer_end(archive)) = Take(written(archive), trailer_end(archive))

\* Every file of the archive has been delivered with its content.
DeliveredIntact ==
    /\ Len(extract.items) = Len(archive)
    /\ \A i \in 1..Len(archive) :
          /\ extract.items[i].info.path = archive[i].info.path
          /\ extract.items[i].content = DiskContent(archive[i].info.path)

\* C25: malformed bytes behind the trailer are not fatal: every file entry
\* has been delivered intact and the walk with advance ends without an
\* error.
C25_ManifestNotFatal ==
    TrailerIntact =>
        /\ extract.phase \in {"end", "failed"} => DeliveredIntact
        /\ extract.phase # "failed"

\* C26: while the writer reads the content of a queued file from the disk it
\* holds the exclusive lock of that file, it never holds more than one lock,
\* and it holds none once the content of the file has ended, once the stream
\* has failed and once the stream is dropped.
C26_FileLock ==
    /\ (state.tag = "File" /\ state.rd.tag = "Large" => env.locked = {state.position + 1})
    /\ Cardinality(env.locked) <= 1
    /\ (state.tag \notin {"OpeningFile", "File"} => env.locked = {})
    /\ (state.tag = "File" /\ state.rd.tag # "Large" => env.locked = {})

\* The stream was dropped in the middle of the second file, whose content it
\* was reading from the disk.
C26_Witness ==
    /\ state.tag = "Dropped"
    /\ Len(archive) = 2
    /\ Len(emitted[1]) > 0
    /\ Len(emitted[2]) > 0
    /\ Len(emitted[2]) < Len(DiskContent(archive[2].info.path))
    /\ env.locked = {}

\* C27: do_many_requests never has more than max_parallel futures in flight,
\* drives every future it was given to completion whatever the others
\* returned, and returns one result for each; abort_all_multiparts fails with
\* FailedMany, holding the errors of the batch, only when no abort of the
\* batch is left unfinished.
AllCollected ==
    /\ aws.in_flight = {}
    /\ Len(aws.results) = aws.uploads
    /\ {aws.results[i].id : i \in 1..Len(aws.results)} = 1..aws.uploads

C27_Bounded ==
    /\ Cardinality(aws.in_flight) <= aws.max_parallel
    /\ (aws.ret = "FailedMany" =>
          /\ AllCollected
          /\ aws.errors = errors_of(aws.results)
          /\ aws.errors # <<>>)
    /\ (aws.phase # "aborting" /\ aws.lists > 0 /\ aws.ret # "ListUploadsFailed"
          => AllCollected)

C27_DoManyRequests ==
    /\ []C27_Bounded
    /\ (aws.phase = "aborting") ~> (aws.phase # "aborting" /\ AllCollected)

\* C28: a query yields exactly the rows of the diff table whose type bit is
\* enabled and whose size lies in the allowed range, and the query with the
\* default parameters yields every row of the table, the rows of
\* directories included.
QueriesTried ==
    {[enabled_kinds |-> k, min_size |-> lo, max_size |-> hi] :
        k \in 0..7, lo \in 0..2, hi \in {0, 1, 2, query.max_size}}

HasSize(r) == IsSome(r.size)

C28_DiffQuery ==
    /\ \A q \in QueriesTried :
          SelectSeq(select(diff.rows, q), HasSize) =
              SelectSeq(diff.rows, LAMBDA r :
                  /\ HasSize(r)
                  /\ BitAnd(r.type, q.enabled_kinds) # 0
                  /\ q.min_size <= r.size[1]
                  /\ r.size[1] <= q.max_size)
    /\ select(diff.rows, query) = diff.rows

\* C29: every file entry the writer has emitted is a 26-byte header whose
\* namesize is the length of the name plus one, the name, a NUL, one more
\* NUL iff namesize is odd, the content, and one more NUL iff the length of
\* the content is odd; every entry has an even length, and every header, the
\* one of the trailer too, starts at an even offset of the stream.
Produced == out \o InFlight

NameOf(i) == crop_name_to(archive[i].info.path, MaxNameLen)

PadIfOdd(n) == IF n % 2 # 0 THEN <<0>> ELSE <<>>

\* What follows the header of the entry of file i.
EntryTail(i) ==
    NameOf(i) \o <<0>> \o PadIfOdd(Len(NameOf(i)) + 1)
    \o emitted[i] \o PadIfOdd(Len(emitted[i]))

RECURSIVE EntryOffset(_)
EntryOffset(i) ==
    IF i = 1 THEN 0 ELSE EntryOffset(i - 1) + HeaderSize + Len(EntryTail(i - 1))

EntryLaidOut(i) ==
    LET o == EntryOffset(i)
    IN /\ Len(Produced) >= o + HeaderSize + Len(EntryTail(i))
       /\ u16from(Produced, o + 1) = MAGIC
       /\ name_size(Produced, o) = Len(NameOf(i)) + 1
       /\ SubSeq(Produced, o + HeaderSize + 1, o + HeaderSize + Len(EntryTail(i)))
             = EntryTail(i)
       /\ (HeaderSize + Len(EntryTail(i))) % 2 = 0
       /\ o % 2 = 0

TrailerLaidOut ==
    LET o == EntryOffset(Len(archive) + 1)
    IN /\ Len(Produced) >= o + HeaderSize + TRAILER_LEN
       /\ u16from(Produced, o + 1) = MAGIC
       /\ name_size(Produced, o) = TRAILER_LEN
       /\ SubSeq(Produced, o + HeaderSize + 1, o + HeaderSize + TRAILER_LEN) = TRAILER
       /\ o % 2 = 0

C29_EntryLayout ==
    /\ \A i \in 1..FilesDone : EntryLaidOut(i)
    /\ (state.tag = "Eof" => TrailerLaidOut)

\* The stream of two files has ended: the first has a name and a content of
\* odd length and got both padding bytes, the second has an even namesize.
C29_Witness ==
    /\ eos /\ state.tag = "Eof"
    /\ Len(archive) = 2
    /\ (Len(NameOf(1)) + 1) % 2 = 1
    /\ Len(emitted[1]) % 2 = 1
    /\ (Len(NameOf(2)) + 1) % 2 = 0
    /\ Len(emitted[2]) = 2

\* C30: the stream of an archive without files is the 26-byte trailer header
\* (the magic, namesize 11, every other field zero), the 11 bytes of
\* TRAILER!!! with its NUL, one padding NUL and the 2 bytes of the empty
\* manifest [], which are 40 bytes.
EmptyStreamed == archive = <<>> /\ eos

TrailerHeader == <<199, 113>> \o [i \in 1..18 |-> 0] \o <<11, 0>> \o [i \in 1..4 |-> 0]

C30_EmptyArchive ==
    EmptyStreamed =>
        /\ out = TrailerHeader \o TRAILER \o <<0>> \o <<91, 93>>
        /\ Len(TrailerHeader) = 26
        /\ Len(TRAILER) = 11
        /\ Len(out) = 40

\* The archive without files was streamed to its end.
C30_Witness == EmptyStreamed /\ ret.res = "ok" /\ Len(out) = 40

\* The statement as it stands: the four parts, in 38 bytes.
C30_ThirtyEightBytes ==
    EmptyStreamed =>
        /\ out = TrailerHeader \o TRAILER \o <<0>> \o <<91, 93>>
        /\ Len(out) = 38

\* C31: the stream of an archive without files is, byte for byte, the
\* constant EMPTY of the tests: the trailer entry of a standard cpio, with
\* nlink 1 and namesize 11 in its header, and the text [] behind it.
C31_EmptyIsStandard == EmptyStreamed => out = EMPTY

\* C32: for every file size below 2^48 the size fields of the header decode
\* back to the size: rdev holds the size shifted right by 32 bits, filesize
\* the low 32 bits as two 16-bit halves with the high half first, and size()
\* puts them together again; decode_u32(convert_u32(n)) = n.
Below48(s) == s[4] = 0

C32_SizeRoundTrip ==
    /\ (sized.phase # "new" /\ Below48(sized.s) =>
          /\ sized.fields.rdev = sized.s[3]
          /\ sized.fields.filesize = <<sized.s[2], sized.s[1]>>)
    /\ (sized.phase = "read" /\ Below48(sized.s) => sized.decoded = sized.s)
    /\ decode_u32(convert_u32(sized.n)) = sized.n
    /\ convert_u32(sized.n) = size_fields(limbs_of(sized.n)).filesize
    /\ header_size([rdev |-> 0, filesize |-> convert_u32(sized.n)]) = sized.n

\* A size of more than 32 bits, with every half in use, was written and read.
C32_Witness ==
    /\ sized.phase = "read"
    /\ Below48(sized.s)
    /\ sized.s[3] = 65535 /\ sized.s[2] = 32768 /\ sized.s[1] = 1
    /\ sized.decoded = sized.s
    /\ sized.n = 2147418112

\* The edges of the state machine of the writer.
EdgeListed(files, a, b) ==
    \/ a.tag = "None" /\ b.tag = "Header" /\ b.position = a.position
         /\ a.position < Len(files)
    \/ a.tag = "None" /\ b.tag = "Trailer" /\ b.position = a.position
         /\ a.position = Len(files)
    \/ a.tag = "Header" /\ b.tag = "OpeningFile" /\ b.position = a.position
    \/ a.tag = "OpeningFile" /\ b.tag = "File" /\ b.position = a.position
    \/ a.tag = "File" /\ b.tag = "File" /\ b.position = a.position
    \/ a.tag = "File" /\ b.tag = "None" /\ b.position = a.position + 1
    \/ a.tag = "Trailer" /\ b.tag = "Eof" /\ b.position = a.position
    \/ a.tag = "Eof" /\ b = a

\* What one call may do to the state: with failing the edge to Poisoned is
\* allowed for a call that fails, without it only the listed edges are.
EdgeOf(files, a, b, res, failing) ==
    CASE res = "pending" -> b = a
      [] res = "failed" /\ failing -> b.tag = "Poisoned"
      [] OTHER -> EdgeListed(files, a, b)

\* The calls of amortized_read that follow one another from sys, up to k of
\* them, each change the state as EdgeOf allows.
RECURSIVE EdgesFrom(_, _, _, _)
EdgesFrom(sys, b, k, failing) ==
    \A r \in {amortized_read(sys, b)} :
        /\ EdgeOf(sys.files, sys.st, r.sys.st, r.res, failing)
        /\ (k > 1 /\ r.res = "ready" /\ sys.st.tag # "Eof"
              => EdgesFrom(r.sys, r.b, k - 1, failing))

WriterNow == [files |-> archive, st |-> state, e |-> env, em |-> emitted]

\* C33: one call of amortized_read changes the state of the writer only
\* along None to Header (a file remains), None to Trailer (none remains),
\* Header to OpeningFile, OpeningFile to File, File to File, File to None
\* with the position advanced by one, Trailer to Eof and Eof to Eof, and,
\* when the call fails, from any state to Poisoned; a call that returns
\* Pending leaves the state as it was.  A stream that reaches Eof holds the
\* header and content of every queued file once, in queue order, and then
\* the trailer once.
C33_StateEdges ==
    /\ \A cap \in 1..MaxCap :
          EdgesFrom(WriterNow, NewSmartBuf(cap), MaxPasses, TRUE)
    /\ (state.tag = "Eof" => Produced = FullStream)

\* The machine has gone through every state for two files, the second read
\* from the disk in several steps, and stands in Eof.
C33_Witness ==
    /\ state.tag = "Eof" /\ state.position = 2
    /\ Len(archive) = 2
    /\ Len(emitted[2]) >= SmallLimit
    /\ Produced = FullStream

\* The statement as it stands: no edge but the listed ones.
C33_ListedEdgesOnly ==
    \A cap \in 1..MaxCap :
        EdgesFrom(WriterNow, NewSmartBuf(cap), MaxPasses, FALSE)

\* C34: once a read of the archive stream has returned an error, every
\* later read returns an error too: no further byte is delivered, and
\* neither the trailer nor a clean end of the stream follows.
C34_ErrorSticky ==
    /\ [](ret.res = "err" =>
            /\ state.tag = "Poisoned"
            /\ InFlight = <<>>
            /\ ~eos
            /\ out # FullStream)
    /\ [][ret.res = "err" =>
            /\ ret'.res = "err"
            /\ out' = out
            /\ ~eos']_vars

\* After bytes of the first file were delivered a read failed, and the read
\* after it failed again, now with the error of the poisoned state.
C34_Witness ==
    /\ ret.res = "err"
    /\ ret.err.kind = "Poisoned"
    /\ out # <<>>
    /\ Len(archive) = 2

\* A measure that grows along the states of the machine.
StateRank(st) ==
    4 * st.position + (CASE st.tag = "None" -> 0
                         [] st.tag = "Header" -> 1
                         [] st.tag = "OpeningFile" -> 2
                         [] st.tag = "File" -> 3
                         [] st.tag = "Trailer" -> 1
                         [] OTHER -> 2)

RECURSIVE PassesAdvance(_, _, _)
PassesAdvance(sys, b, k) ==
    \A r \in {amortized_read(sys, b)} :
        /\ \/ r.res \in {"pending", "failed"}
           \/ ~r.b.is_empty
           \/ r.b.is_eof
           \/ StateRank(r.sys.st) > StateRank(sys.st)
        /\ (k > 1 /\ r.res = "ready" /\ r.b.is_empty /\ ~r.b.is_eof
              => PassesAdvance(r.sys, r.b, k - 1))

\* C35 as it was stated: with every opening and every read of a file
\* succeeding in the end, repeated polling always reaches the end of the
\* stream, and every pass of the adaptor's loop advances.
C35_AlwaysEndOfStream ==
    /\ [](\A cap \in 1..MaxCap : PassesAdvance(WriterNow, NewSmartBuf(cap), MaxPasses))
    /\ <>eos

MismatchReturned == ret.res = "err" /\ ret.err.kind \in {"SizeMismatch", "HashMismatch"}

\* C35: when every file opens and every read of a file becomes ready
\* without an error, polling again and again reaches the end of the stream
\* (or the error of a size or hash that does not match); and every pass of
\* the loop of the adaptor puts bytes into the buffer, returns Pending,
\* fails, signals Eof or moves the machine to a later state, so that no poll
\* loops for ever.
C35_Progress ==
    /\ [](\A cap \in 1..MaxCap : PassesAdvance(WriterNow, NewSmartBuf(cap), MaxPasses))
    /\ [](ret.res = "err" => MismatchReturned \/ ret.err.kind = "Poisoned")
    /\ <>(eos \/ ret.res = "err")

\* The stream of two files, the second read from the disk piece by piece,
\* has reached its end.
C35_Witness ==
    /\ eos
    /\ Len(archive) = 2
    /\ Len(emitted[2]) >= SmallLimit
    /\ out = FullStream

\* The files the directories hold, and the rows the packs built so far hold.
InDirectories == UNION {packer.in_dir[d] : d \in DOMAIN packer.in_dir}

PackedRows == Concat(packer.result)

\* C36: at the end of every grouping step the set of remaining small files
\* is the union of the file sets of the directories, a file that was placed
\* in a pack is in neither, and no file is a member of a pack twice, within
\* one step or across steps.
C36_GroupingSets ==
    packer.phase = "grouping" =>
        /\ packer.files = InDirectories
        /\ \A d \in DOMAIN packer.in_dir :
              \A f \in packer.in_dir[d] : directory(f.path) = d
        /\ \A k \in 1..Len(PackedRows) :
              /\ \A f \in packer.files \cup InDirectories : f.rowid # PackedRows[k]
              /\ \A j \in 1..Len(PackedRows) : PackedRows[j] = PackedRows[k] => j = k

\* Two grouping steps have built packs of two and of three files out of
\* several directories, and no file remains.
C36_Witness ==
    /\ packer.phase = "grouping"
    /\ Len(packer.result) = 2
    /\ Len(packer.result[1]) = 2
    /\ Len(packer.result[2]) = 3
    /\ packer.files = {}
    /\ Cardinality(DOMAIN packer.in_dir) >= 3

\* The entry the Reader has just returned is whole in the stream: its
\* content and the padding byte of an odd size are there.
EntryWhole ==
    extract.pos + header_size(extract.header) + (header_size(extract.header) % 2)
        <= Len(out)

\* The ordinal of the entry the Reader has just returned.
EntryOrdinal == Len(extract.items) + Cardinality(extract.skipped) + 1

\* C37: for every file entry that is whole in the stream, skip and drain_to
\* leave the reader at the same position, filesize bytes and one more byte
\* iff filesize is odd behind the padded name, and drain_to hands over
\* exactly the filesize bytes of the content, never the padding byte.
C37_SkipAsDrain ==
    [][(extract.phase = "file" /\ EntryWhole) =>
          /\ reader_skip(extract, out).pos = reader_drain_to(extract, out).pos
          /\ reader_skip(extract, out).phase = reader_drain_to(extract, out).phase
          /\ extract'.phase = "entry"
          /\ extract'.pos = extract.pos + header_size(extract.header)
                            + (IF header_size(extract.header) % 2 # 0 THEN 1 ELSE 0)
          /\ extract.pos = header_offset(archive, EntryOrdinal)
                           + Len(encode(archive[EntryOrdinal].info))
          /\ extract'.pos = header_offset(archive, EntryOrdinal + 1)
          /\ header_size(extract.header) = archive[EntryOrdinal].info.data.size
          /\ (Len(extract'.items) > Len(extract.items) =>
                extract'.items[Len(extract'.items)].content
                    = DiskContent(archive[EntryOrdinal].info.path))
          /\ (Len(extract'.items) = Len(extract.items) =>
                extract'.skipped = extract.skipped \cup {EntryOrdinal})
      ]_vars

\* The first entry, of an odd size, was skipped, the second, of an odd size
\* too, was drained, and the Reader has reached the end.
C37_Witness ==
    /\ extract.phase = "end"
    /\ out = written(archive)
    /\ extract.skipped = {1}
    /\ Len(extract.items) = 1
    /\ Len(DiskContent(archive[1].info.path)) % 2 = 1
    /\ extract.items[1].info.path = archive[2].info.path
    /\ Len(extract.items[1].content) % 2 = 1

\* C39: on an open store the cached snapshot_count is the number of rows of
\* the snapshots catalogue: every creation of a snapshot, the one of
\* empty_snapshot included, adds one to it, and opening a snapshot that
\* exists leaves it as it was.
C39_SnapshotCount ==
    db.open => db.snapshot_count = Len(store.snaps)

\* The schema names of the live Snapshot and Diff values.
LiveHandles == {snap_name(n) : n \in conn.ro \cup conn.rw} \cup conn.diffs

\* C38: after any sequence of open_snapshot, readonly_snapshot,
\* empty_snapshot, compare_snapshots, into_name and drops on one store,
\* failed calls included, the databases attached to the connection are
\* exactly the names of the live snapshot and diff handles: a
\* readonly_snapshot that fails with NoSnapshotExists and a compare that
\* fails leave nothing attached.
C38_AttachedAreLive ==
    conn.attached = LiveHandles

\* The header the writer makes for queued entry i, and the name the reader
\* gets with it.
QueuedHeader(i) == from_info(archive[i].info, crop_name_to(archive[i].info.path, MaxNameLen))

QueuedName(i) == crop_name_to(archive[i].info.path, MaxNameLen) \o <<0>>

\* C40: no entry the writer emits for a queued file is taken for the
\* trailer by the reader, whatever its name (TRAILER!!! included), kind,
\* mode or size: its header has a mode that is not zero, so the reader
\* returns End only at the trailer of the writer and loses no queued entry.
C40_NotTakenForTrailer ==
    /\ \A i \in 1..Len(archive) :
          /\ QueuedHeader(i).mode # 0
          /\ ~is_trailer(QueuedHeader(i), QueuedName(i))
    /\ extract.phase # "failed"
    /\ EntryOrdinal <= Len(archive) + 1
    /\ (extract.phase = "file" =>
          /\ EntryOrdinal <= Len(archive)
          /\ extract.header = QueuedHeader(EntryOrdinal)
          /\ extract.filename = QueuedName(EntryOrdinal))
    /\ (extract.phase = "end" =>
          /\ EntryOrdinal = Len(archive) + 1
          /\ extract.pos = Len(out))

\* An empty regular file named TRAILER!!! of mode zero was read as a file,
\* and so was the entry behind it; then the reader reached the end.
C40_Witness ==
    /\ extract.phase = "end"
    /\ Len(archive) = 2
    /\ QueuedName(1) = TRAILER
    /\ archive[1].info.mode = 0
    /\ QueuedHeader(1).namesize = TRAILER_LEN
    /\ QueuedHeader(1).filesize = <<0, 0>>
    /\ Len(extract.items) = 2
    /\ extract.items[1].info.path = archive[1].info.path
    /\ extract.items[2].info.path = archive[2].info.path

========================================================================
